---------------------------- MODULE Spec2Model ----------------------------
(***************************************************************************)
(* A model of sheepdog's work-queue engine (sheep/work.c) and multi-disk   *)
(* placement layer (sheep/md.c).                                           *)
(*                                                                         *)
(* Worker threads of one queue are interchangeable, so the pool is kept as *)
(* the number of workers at each program point of worker_routine; a worker *)
(* that holds a work item is tracked through that item (hold).  A critical *)
(* section under one mutex is one action: pending_lock, startup_lock and   *)
(* finished_lock are free between any two actions, so they need no         *)
(* variables.  A step that touches nothing shared (passing the startup     *)
(* barrier, calling work->fn, returning from it) is joined to the locked   *)
(* step next to it.                                                        *)
(*                                                                         *)
(* Spec and FairSpec are a work queue of any policy with its submitters;   *)
(* SpecRing is one call of the ring lookup oid_to_vdisk_from, turn by      *)
(* turn;                                                                   *)
(* SpecMD is the multi-disk layer: the disk array, the ring, EIO recovery  *)
(* through the md work queue, plug and unplug.  md_lock is held over each  *)
(* of md_do_recover, do_plug_unplug and get_object_path, which are atomic. *)
(* SpecScan is md_exist called by several threads on a fixed disk array:   *)
(* the read lock excludes no other reader, so the access and the rename of *)
(* check_and_move are steps of their own.  SpecInit is init_work_queue     *)
(* with startup_lock as a variable, beside the start-up of the worker it   *)
(* makes.                                                                  *)
(* SpecLock is one queue with each thread at its own place in the code and *)
(* every lock as a variable: the main thread (init_work_queue, then the    *)
(* completion callback), threads that call md_handle_eio, and the workers. *)
(* A step runs from one lock call to the next; a critical section that     *)
(* takes no second lock is one step.                                       *)
(***************************************************************************)
EXTENDS Integers, Sequences, FiniteSets, TLC

(* ------------------------------ bounds --------------------------------- *)
\* work items submitted in one run
MaxWorks == 2
\* pthread_create fails once this many workers of the queue are alive
MaxThreads == 2
\* cluster node counts tried for the DYNAMIC roof: 1..MaxNodes
MaxNodes == 1
\* the clock is read at multiples of TickMs, up to MaxTicks * TickMs
TickMs == 500
MaxTicks == 2

\* ring lookups are tried on rings of 1..MaxRing entries with ids in 0..MaxId
MaxRing == 3
MaxId == 3

\* the disks are the paths "/d0" .. "/d<MaxDisks - 1>"; a disk of average
\* size gets VDisks points on the ring (128 in md.c); hashes are the low
\* HashBits bits of FNV-1a/64; objects have the ids 1..MaxOids
MaxDisks == 2
VDisks == 2
HashBits == 8
MaxOids == 3
\* plug and unplug calls in one run, from any of the start lists and with
\* EIO recoveries before and after
MaxPlugs == 1
\* threads that call md_exist
MaxScan == 2
\* calls of init_work_queue
MaxInit == 3
\* threads that report an EIO, worker threads ever made for the queue, and
\* reports in one run, in the specification with locks
MaxSub == 2
MaxWkr == 2
MaxEio == 2

(* -------------------------- program constants -------------------------- *)
WQ_PROTECTION_PERIOD == 1000
\* SIZE_MAX stands for the largest size_t; any value above 2 * MaxThreads
\* decides wq_need_grow the same way.
SIZE_MAX == 2147483647

WQ_ORDERED == "WQ_ORDERED"
WQ_DYNAMIC == "WQ_DYNAMIC"
WQ_UNLIMITED == "WQ_UNLIMITED"

Works == 1..MaxWorks

VARIABLES
  \* struct worker_info
  tc, nr_threads, nr_pending, nr_running, tm_end_of_protection,
  pending_list, finished_list,
  \* the environment of the queue
  nr_nodes, now, efd,
  \* submitters: the calls between pthread_mutex_unlock and
  \* pthread_cond_signal, the next item to be made, the items made so far
  nsignal, next_work, work,
  \* workers: how many stand at each point of worker_routine, and the items held
  wstart, wloop, wwait, wwoken, wnotify, hold,
  \* the completion callback bs_thread_request_done: its local list
  list, ndone,
  \* history: the time of the last grow decision (-1: none yet) and what the
  \* last create_worker_threads call returned
  last_grow, create_ret,
  \* one call of oid_to_vdisk_from(vds, nr, oid): the ring, the hash of oid,
  \* the locals start and end, the index of the entry returned
  lk_vds, lk_nr, lk_id, lk_start, lk_end, lk_pc, lk_ret,
  \* md.c: sys->enable_md, the disk array, the ring, sys->disk_space
  enable_md, md_disks, md_nr_disks, md_vds, md_nr_vds, disk_space,
  \* history: whether the last md_do_recover or plug/unplug called
  \* kick_recover, what the last md_handle_eio and the last plug/unplug returned
  kicked, eio_ret, plug_ret, nr_plugs,
  \* history: the arguments of the last plug/unplug call
  plug_arg,
  \* the object sc_oid of md_exist: the disk directories that hold its file;
  \* per calling thread the place in md_exist, the index i of scan_wd, the
  \* value returned
  files, sc_oid, sc_pc, sc_i, sc_ret,
  \* history of a call: the files when it began, whether it entered scan_wd,
  \* whether no other call ran beside it
  sc_pre, sc_scan, sc_alone,
  \* init_work_queue: the queue the main thread is making and its place in
  \* the call; per queue nr_threads, the state of startup_lock, the place of
  \* the first worker, the value returned, and the calls of
  \* pthread_mutex_lock and pthread_mutex_unlock the main thread made on
  \* startup_lock; the global worker_info_list
  iq_cur, iq_pc, iq_nr_threads, startup_lock, iq_worker, iq_ret,
  iq_locks, iq_unlocks, worker_info_list,
  \* the threads of one queue with their locks: per thread the place in its
  \* code and the lock it is about to take; the holder of each mutex and
  \* the writer and readers of md_lock; the counters of the queue, the
  \* sizes of its finished list and of the local list of the callback, the
  \* eventfd counter; the workers registered with the tracer and counted in
  \* nr_threads; the target and the newest worker of the running
  \* create_worker_threads; the reports made so far and md_nr_disks
  th_pc, th_want, th_held, th_rw, th_nr_threads, th_nr_pending,
  th_nr_running, th_finished, th_local, th_efd, th_registered, th_counted,
  th_target, th_cur, th_eio, th_disks

wqvars == << tc, nr_threads, nr_pending, nr_running, tm_end_of_protection,
             pending_list, finished_list, nr_nodes, now, efd, nsignal,
             next_work, work, wstart, wloop, wwait, wwoken, wnotify, hold,
             list, ndone, last_grow, create_ret >>

lkvars == << lk_vds, lk_nr, lk_id, lk_start, lk_end, lk_pc, lk_ret >>

mdvars == << enable_md, md_disks, md_nr_disks, md_vds, md_nr_vds, disk_space,
             kicked, eio_ret, plug_ret, nr_plugs, plug_arg >>

scvars == << files, sc_oid, sc_pc, sc_i, sc_ret, sc_pre, sc_scan, sc_alone >>

iqvars == << iq_cur, iq_pc, iq_nr_threads, startup_lock, iq_worker, iq_ret,
            iq_locks, iq_unlocks, worker_info_list >>

thvars == << th_pc, th_want, th_held, th_rw, th_nr_threads, th_nr_pending,
            th_nr_running, th_finished, th_local, th_efd, th_registered,
            th_counted, th_target, th_cur, th_eio, th_disks >>

vars == << wqvars, lkvars, mdvars, scvars, iqvars, thvars >>

\* a path is named by the number of its disk; NoPath is the empty string
NoPath == -1

NoWork == [fn |-> FALSE, done |-> "none", path |-> NoPath]

\* gettimeofday: a reading t of a clock that does not go back; now is the
\* latest reading
Clock == { k * TickMs : k \in 0..MaxTicks }
get_msec_time(t) == t \in Clock /\ t >= now /\ now' = t

(* ------------------------------ policies ------------------------------- *)
\* a queue whose ORDERED roof is 2
wq_get_roof_ordered2(t) ==
  CASE t = WQ_ORDERED -> 2
    [] t = WQ_DYNAMIC -> nr_nodes * 2
    [] t = WQ_UNLIMITED -> SIZE_MAX

wq_get_roof(t) ==
  CASE t = WQ_ORDERED -> 1
    [] t = WQ_DYNAMIC -> nr_nodes * 2
    [] t = WQ_UNLIMITED -> SIZE_MAX

\* the condition of wq_need_grow, evaluated after nr_pending++
wq_need_grow(pending) ==
  /\ nr_threads < pending + nr_running
  /\ nr_threads * 2 <= wq_get_roof(tc)

\* a shrink test that forgets the protection period
wq_need_shrink_notime(t) ==
  IF nr_pending + nr_running <= nr_threads \div 2
  THEN << TRUE, tm_end_of_protection >>
  ELSE << FALSE, t + WQ_PROTECTION_PERIOD >>

\* a shrink test that compares the load with all the threads, not with half
wq_need_shrink_full(t) ==
  IF nr_pending + nr_running <= nr_threads
  THEN << tm_end_of_protection <= t, tm_end_of_protection >>
  ELSE << FALSE, t + WQ_PROTECTION_PERIOD >>

\* a shrink test that moves the end of protection whenever it fails
wq_need_shrink_advance(t) ==
  IF nr_pending + nr_running <= nr_threads \div 2 /\ tm_end_of_protection <= t
  THEN << TRUE, tm_end_of_protection >>
  ELSE << FALSE, t + WQ_PROTECTION_PERIOD >>

\* wq_need_shrink with the clock reading t: <<result, new tm_end_of_protection>>
wq_need_shrink(t) ==
  IF nr_pending + nr_running <= nr_threads \div 2
  THEN << tm_end_of_protection <= t, tm_end_of_protection >>
  ELSE << FALSE, t + WQ_PROTECTION_PERIOD >>

(* ------------------------------ queue_work ----------------------------- *)
\* create_worker_threads(wi, target) under startup_lock: the loop makes
\* workers until the target is met or pthread_create fails; made is the
\* number of calls that succeeded.
create_worker_threads(target, made) ==
  /\ made \in 0..(target - nr_threads)
  /\ nr_threads + made <= MaxThreads
  /\ nr_threads' = nr_threads + made
  /\ wstart' = wstart + made
  /\ create_ret' = IF nr_threads + made < target THEN -1 ELSE 0

\* lines 136-144: lock, nr_pending++, grow, list_add_tail, unlock.  The
\* caller goes on to pthread_cond_signal (CondSignal).
queue_work(w) ==
  /\ nr_pending' = nr_pending + 1
  /\ IF wq_need_grow(nr_pending + 1)
     THEN /\ \E t \in Clock :
               /\ get_msec_time(t)
               /\ tm_end_of_protection' = t + WQ_PROTECTION_PERIOD
               /\ last_grow' = t
          /\ \E made \in 0..MaxThreads : create_worker_threads(nr_threads * 2, made)
     ELSE UNCHANGED << now, tm_end_of_protection, last_grow, nr_threads, wstart,
                       create_ret >>
  /\ pending_list' = Append(pending_list, w)
  /\ nsignal' = nsignal + 1

\* the work items of a submitter: the odd ones have a run callback, the
\* even ones have none (work->fn == NULL)
RunCallback(w) == w % 2 = 1

\* a submitter of the queue
Submit ==
  /\ next_work <= MaxWorks
  /\ \E f \in {RunCallback(next_work)} :
       work' = [work EXCEPT ![next_work] = [fn |-> f, done |-> "count", path |-> NoPath]]
  /\ next_work' = next_work + 1
  /\ queue_work(next_work)
  /\ UNCHANGED << tc, nr_running, finished_list, nr_nodes, efd, wloop,
                  wwait, wwoken, wnotify, hold, list, ndone, lkvars, mdvars, scvars, iqvars, thvars >>

\* a queue_work that returns without pthread_cond_signal
CondSignalLost ==
  /\ nsignal > 0
  /\ nsignal' = nsignal - 1
  /\ UNCHANGED << tc, nr_threads, nr_pending, nr_running, tm_end_of_protection,
                  pending_list, finished_list, nr_nodes, now, efd, next_work,
                  work, wstart, wloop, wwait, wwoken, wnotify, hold, list,
                  ndone, last_grow, create_ret, lkvars, mdvars, scvars, iqvars, thvars >>

\* line 146: pthread_cond_signal wakes one waiter, if there is one
CondSignal ==
  /\ nsignal > 0
  /\ nsignal' = nsignal - 1
  /\ IF wwait > 0
     THEN wwait' = wwait - 1 /\ wwoken' = wwoken + 1
     ELSE UNCHANGED << wwait, wwoken >>
  /\ UNCHANGED << tc, nr_threads, nr_pending, nr_running, tm_end_of_protection,
                  pending_list, finished_list, nr_nodes, now, efd, next_work,
                  work, wstart, wloop, wnotify, hold, list, ndone, last_grow, create_ret, lkvars, mdvars, scvars, iqvars, thvars >>

(* ---------------------------- worker_routine --------------------------- *)
\* lines 183-189: past the startup barrier, nr_running++
WorkerStartup ==
  /\ wstart > 0
  /\ wstart' = wstart - 1
  /\ nr_running' = nr_running + 1
  /\ wloop' = wloop + 1
  /\ UNCHANGED << tc, nr_threads, nr_pending, tm_end_of_protection,
                  pending_list, finished_list, nr_nodes, now, efd, nsignal,
                  next_work, work, wwait, wwoken, wnotify, hold, list, ndone,
                  last_grow, create_ret, lkvars, mdvars, scvars, iqvars, thvars >>

\* a worker that unlinks the newest item
list_last_entry(l) == l[Len(l)]

\* which item a worker unlinks: list_first_entry (line 213)
list_first_entry(l) == Head(l)

list_del(l, w) == SelectSeq(l, LAMBDA x : x # w)

\* a retest that waits on the condition without nr_running--
Retest_nodec(running) ==
  IF pending_list = << >>
  THEN /\ nr_running' = running
       /\ wwait' = wwait + 1
       /\ UNCHANGED << nr_pending, pending_list, hold >>
  ELSE /\ nr_running' = running
       /\ nr_pending' = nr_pending - 1
       /\ hold' = [hold EXCEPT ![list_first_entry(pending_list)] =
                     IF work[list_first_entry(pending_list)].fn THEN "run" ELSE "fin"]
       /\ pending_list' = list_del(pending_list, list_first_entry(pending_list))
       /\ UNCHANGED wwait

\* retest (lines 204-220), entered with pending_lock held and the worker
\* counted in nr_running (running): wait on an empty list, else unlink the
\* head, unlock and call work->fn if there is one.
Retest(running) ==
  IF pending_list = << >>
  THEN /\ nr_running' = running - 1
       /\ wwait' = wwait + 1
       /\ UNCHANGED << nr_pending, pending_list, hold >>
  ELSE /\ nr_running' = running
       /\ nr_pending' = nr_pending - 1
       /\ hold' = [hold EXCEPT ![list_first_entry(pending_list)] =
                     IF work[list_first_entry(pending_list)].fn THEN "run" ELSE "fin"]
       /\ pending_list' = list_del(pending_list, list_first_entry(pending_list))
       /\ UNCHANGED wwait

\* lines 193-220: the shrink test, then retest
WorkerLoop ==
  /\ wloop > 0
  /\ wloop' = wloop - 1
  /\ \E t \in Clock :
       /\ get_msec_time(t)
       /\ tm_end_of_protection' = wq_need_shrink(t)[2]
       /\ IF wq_need_shrink(t)[1]
          THEN /\ nr_running' = nr_running - 1
               /\ nr_threads' = nr_threads - 1
               /\ UNCHANGED << nr_pending, pending_list, hold, wwait >>
          ELSE /\ Retest(nr_running)
               /\ UNCHANGED nr_threads
  /\ UNCHANGED << tc, finished_list, nr_nodes, efd, nsignal, next_work,
                  work, wstart, wwoken, wnotify, list, ndone, last_grow, create_ret, lkvars, mdvars, scvars, iqvars, thvars >>

\* pthread_cond_wait returns (lines 207-209): the lock is taken again
WorkerWake ==
  /\ wwoken > 0
  /\ wwoken' = wwoken - 1
  /\ Retest(nr_running + 1)
  /\ UNCHANGED << tc, nr_threads, tm_end_of_protection, finished_list,
                  nr_nodes, now, efd, nsignal, next_work, work, wstart, wloop,
                  wnotify, list, ndone, last_grow, create_ret, lkvars, mdvars, scvars, iqvars, thvars >>

\* a worker that puts the item at the head of the finished list (list_add)
WorkerFinish_head(w) ==
  /\ hold[w] \in {"run", "fin"}
  /\ finished_list' = << w >> \o finished_list
  /\ hold' = [hold EXCEPT ![w] = "none"]
  /\ wnotify' = wnotify + 1
  /\ UNCHANGED << tc, nr_threads, nr_pending, nr_running, tm_end_of_protection,
                  pending_list, nr_nodes, now, efd, nsignal, next_work, work,
                  wstart, wloop, wwait, wwoken, list, ndone, last_grow, create_ret, lkvars, mdvars, scvars, iqvars, thvars >>

\* lines 220-224: work->fn has returned (or there was none); the item goes
\* to the finished list
WorkerFinish(w) ==
  /\ hold[w] \in {"run", "fin"}
  /\ finished_list' = Append(finished_list, w)
  /\ hold' = [hold EXCEPT ![w] = "none"]
  /\ wnotify' = wnotify + 1
  /\ UNCHANGED << tc, nr_threads, nr_pending, nr_running, tm_end_of_protection,
                  pending_list, nr_nodes, now, efd, nsignal, next_work, work,
                  wstart, wloop, wwait, wwoken, list, ndone, last_grow, create_ret, lkvars, mdvars, scvars, iqvars, thvars >>

\* line 226: eventfd_write(efd, 1)
WorkerNotify ==
  /\ wnotify > 0
  /\ efd' = efd + 1
  /\ wnotify' = wnotify - 1
  /\ wloop' = wloop + 1
  /\ UNCHANGED << tc, nr_threads, nr_pending, nr_running, tm_end_of_protection,
                  pending_list, finished_list, nr_nodes, now, nsignal,
                  next_work, work, wstart, wwait, wwoken, hold, list, ndone,
                  last_grow, create_ret, lkvars, mdvars, scvars, iqvars, thvars >>

(* ------------------------ md.c: disks and ring ------------------------- *)
Paths == 0..(MaxDisks - 1)
Oids == 1..MaxOids

\* the characters of the path "/d<p>"
PathBytes(p) == << 47, 100, 48 + p >>

\* the size init_path_space finds recorded for a path that works: the odd
\* disks are three times as large as the even ones
DiskSize(p) == 1 + 2 * (p % 2)

Min(S) == CHOOSE x \in S : \A y \in S : x <= y

RECURSIVE Reverse(_)
Reverse(q) == IF q = << >> THEN << >> ELSE Append(Reverse(Tail(q)), Head(q))

\* hashes are kept modulo 2^HashBits: xor and multiplication commute with
\* taking the low bits
HashMod == 2 ^ HashBits

RECURSIVE Xor(_, _)
Xor(a, b) ==
  IF a = 0 THEN b
  ELSE IF b = 0 THEN a
  ELSE ((a + b) % 2) + 2 * Xor(a \div 2, b \div 2)

\* the low bits of 0xcbf29ce484222325 and of 0x100000001b3
FNV1A_64_INIT == 8997 % HashMod
FNV_64_PRIME == 435

\* FNV-1a over the bytes of buf: xor the byte in, multiply by the prime
RECURSIVE fnv_64a_buf(_, _)
fnv_64a_buf(buf, hval) ==
  IF buf = << >> THEN hval
  ELSE fnv_64a_buf(Tail(buf), (Xor(hval, Head(buf) % HashMod) * FNV_64_PRIME) % HashMod)

\* the bytes of an int and of a uint64_t, low byte first
IntBytes(n) == << n % 256, (n \div 256) % 256, 0, 0 >>
OidBytes(oid) == << oid % 256, (oid \div 256) % 256, 0, 0, 0, 0, 0, 0 >>

\* line 63: the hash of an oid
oid_hash(oid) == fnv_64a_buf(OidBytes(oid), FNV1A_64_INIT)

\* lines 104-113: the ids of the n points of one disk, each hashed on from
\* the one before: the counter nmds, then the path from its last character
RECURSIVE vdisk_ids(_, _, _, _)
vdisk_ids(path, nmds, n, hval) ==
  IF n = 0 THEN << >>
  ELSE LET h == fnv_64a_buf(Reverse(PathBytes(path)),
                            fnv_64a_buf(IntBytes(nmds), hval))
       IN << h >> \o vdisk_ids(path, nmds, n - 1, h)

\* lines 101-116: the points of the disks 0..nmds-1 in the order made; the
\* counter was decremented by the loop test, disk i sees nmds - 1 - i
RECURSIVE vdisks_unsorted(_, _, _)
vdisks_unsorted(ds, nmds, i) ==
  IF i = nmds THEN << >>
  ELSE LET ids == vdisk_ids(ds[i].path, nmds - 1 - i, ds[i].nr_vdisks, FNV1A_64_INIT)
       IN [k \in 1..Len(ids) |-> [idx |-> i, id |-> ids[k]]]
            \o vdisks_unsorted(ds, nmds, i + 1)

\* line 117: qsort by vdisk_cmp leaves the entries ascending by id; the
\* order of entries with the same id is not determined.  S: the entries
\* of gen still to be placed
RECURSIVE qsort(_, _)
qsort(gen, S) ==
  IF S = {} THEN { << >> }
  ELSE LET m == Min({ gen[i].id : i \in S }) IN
       UNION { { << gen[i] >> \o r : r \in qsort(gen, S \ {i}) } :
                 i \in { j \in S : gen[j].id = m } }

\* an array indexed from 0
Array(q) == [i \in 0..(Len(q) - 1) |-> q[i + 1]]

\* the rings disks_to_vdisks can leave in vds
disks_to_vdisks(ds, nmds) ==
  LET gen == vdisks_unsorted(ds, nmds, 0) IN
  { Array(q) : q \in qsort(gen, 1..Len(gen)) }

\* lines 127-136
path_to_disk_idx(d, path) ==
  LET found == { i \in 0..(d.nr - 1) : d.disks[i].path = path } IN
  IF found = {} THEN -1 ELSE Min(found)

\* lines 138-155; nomk: the paths xmkdir fails on
md_add_disk(d, path, nomk) ==
  IF path_to_disk_idx(d, path) # -1 THEN d
  ELSE IF path \in nomk THEN d
  ELSE [disks |-> [d.disks EXCEPT ![d.nr].path = path], nr |-> d.nr + 1]

\* rintf: n / m rounded to the nearest integer, halves to the even one
rintf(n, m) ==
  LET q == n \div m
      r == n % m
  IN IF 2 * r < m THEN q
     ELSE IF 2 * r > m THEN q + 1
     ELSE IF q % 2 = 0 THEN q ELSE q + 1

\* lines 157-171; nr_vdisks is a uint16_t
calculate_vdisks(disks, nr_disks, total) ==
  LET avg_size == total \div nr_disks IN
  [i \in DOMAIN disks |->
     IF i < nr_disks
     THEN [disks[i] EXCEPT !.nr_vdisks = rintf(VDisks * disks[i].space, avg_size) % 65536]
     ELSE disks[i]]

\* lines 254-291; fail: the paths that are broken (no xattr, no .stale,
\* no size)
init_path_space(path, fail) == IF path \in fail THEN 0 ELSE DiskSize(path)

\* a remove_disk that wipes the slot it frees
remove_disk_wipe(d, idx) ==
  [disks |-> [i \in DOMAIN d.disks |->
                IF i >= idx /\ i < d.nr - 1 THEN d.disks[i + 1]
                ELSE IF i = d.nr - 1 THEN [path |-> NoPath, nr_vdisks |-> 0, space |-> 0]
                ELSE d.disks[i]],
   nr |-> d.nr - 1]

\* lines 293-306: the entries above idx move down one slot, the count is
\* decremented, the last slot keeps what it held
remove_disk(d, idx) ==
  [disks |-> [i \in DOMAIN d.disks |->
                IF i >= idx /\ i < d.nr - 1 THEN d.disks[i + 1] ELSE d.disks[i]],
   nr |-> d.nr - 1]

RECURSIVE Sum(_, _)
Sum(f, S) == IF S = {} THEN 0 ELSE LET x == Min(S) IN f[x] + Sum(f, S \ {x})

\* lines 308-332: what md_init_space can leave for the array d.  built
\* tells that the ring was made again (and enable_md set); total is the
\* value returned
RECURSIVE md_init_space(_, _)
md_init_space(d, fail) ==
  IF d.nr = 0
  THEN { [disks |-> d.disks, nr |-> 0, built |-> FALSE, vds |-> << >>, total |-> 0] }
  ELSE LET bad == { i \in 0..(d.nr - 1) : init_path_space(d.disks[i].path, fail) = 0 }
           upto == IF bad = {} THEN d.nr - 1 ELSE Min(bad)
           spaced == [i \in DOMAIN d.disks |->
                        IF i <= upto
                        THEN [d.disks[i] EXCEPT !.space = init_path_space(d.disks[i].path, fail)]
                        ELSE d.disks[i]]
       IN IF bad # {}
          THEN md_init_space(remove_disk([disks |-> spaced, nr |-> d.nr], upto), fail)
          ELSE LET total == Sum([i \in 0..(d.nr - 1) |-> spaced[i].space], 0..(d.nr - 1))
                   disks == calculate_vdisks(spaced, d.nr, total)
               IN { [disks |-> disks, nr |-> d.nr, built |-> TRUE, vds |-> v, total |-> total] :
                      v \in disks_to_vdisks(disks, d.nr) }

\* an md_init_space that stores the disks and leaves the old ring in place
md_set_oldring(r) ==
  /\ md_disks' = r.disks
  /\ md_nr_disks' = r.nr
  /\ IF r.built
     THEN enable_md' = TRUE /\ UNCHANGED << md_vds, md_nr_vds >>
     ELSE UNCHANGED << md_vds, md_nr_vds, enable_md >>
  /\ disk_space' = r.total

\* the state of md.c after md_init_space has left r
md_set(r) ==
  /\ md_disks' = r.disks
  /\ md_nr_disks' = r.nr
  /\ IF r.built
     THEN /\ md_vds' = r.vds
          /\ md_nr_vds' = Cardinality(DOMAIN r.vds)
          /\ enable_md' = TRUE
     ELSE UNCHANGED << md_vds, md_nr_vds, enable_md >>
  /\ disk_space' = r.total

\* the disk array as it stands
md_array == [disks |-> md_disks, nr |-> md_nr_disks]

(* ---------------------- md.c: failure and plugging --------------------- *)
SD_RES_SUCCESS == "SD_RES_SUCCESS"
SD_RES_UNKNOWN == "SD_RES_UNKNOWN"
SD_RES_EIO == "SD_RES_EIO"
SD_RES_NETWORK_ERROR == "SD_RES_NETWORK_ERROR"

\* the paths of the disks counted online
OnlinePaths(d) == { d.disks[i].path : i \in 0..(d.nr - 1) }

\* an md_do_recover that kicks recovery for a path that is not online too
md_do_recover_kick(w) ==
  /\ LET idx == path_to_disk_idx(md_array, work[w].path) IN
       IF idx < 0
       THEN /\ UNCHANGED << enable_md, md_disks, md_nr_disks, md_vds, md_nr_vds,
                            disk_space >>
            /\ kicked' = (md_nr_disks > 0)
       ELSE LET d == remove_disk(md_array, idx) IN
            \E fail \in SUBSET OnlinePaths(d) :
              \E r \in md_init_space(d, fail) :
                /\ md_set(r)
                /\ kicked' = (r.nr > 0)
  /\ ndone' = [ndone EXCEPT ![w] = @ + 1]
  /\ work' = [work EXCEPT ![w] = NoWork]
  /\ UNCHANGED << eio_ret, plug_ret, nr_plugs, plug_arg >>

\* an md_do_recover that removes the disk and leaves the ring as it is
md_do_recover_noinit(w) ==
  /\ LET idx == path_to_disk_idx(md_array, work[w].path) IN
       IF idx < 0
       THEN /\ UNCHANGED << md_disks, md_nr_disks >>
            /\ kicked' = FALSE
       ELSE /\ md_disks' = remove_disk(md_array, idx).disks
            /\ md_nr_disks' = md_nr_disks - 1
            /\ kicked' = (md_nr_disks > 1)
  /\ ndone' = [ndone EXCEPT ![w] = @ + 1]
  /\ work' = [work EXCEPT ![w] = NoWork]
  /\ UNCHANGED << enable_md, md_vds, md_nr_vds, disk_space, eio_ret, plug_ret, nr_plugs, plug_arg >>

\* lines 408-425, the done callback of an md_work: under the write lock
\* the disk of the path is removed and the space set up again, with any of
\* the remaining disks found broken; the md_work is freed
md_do_recover(w) ==
  /\ LET idx == path_to_disk_idx(md_array, work[w].path) IN
       IF idx < 0
       THEN /\ UNCHANGED << enable_md, md_disks, md_nr_disks, md_vds, md_nr_vds,
                            disk_space >>
            /\ kicked' = FALSE
       ELSE LET d == remove_disk(md_array, idx) IN
            \E fail \in SUBSET OnlinePaths(d) :
              \E r \in md_init_space(d, fail) :
                /\ md_set(r)
                /\ kicked' = (r.nr > 0)
  /\ ndone' = [ndone EXCEPT ![w] = @ + 1]
  /\ work' = [work EXCEPT ![w] = NoWork]
  /\ UNCHANGED << eio_ret, plug_ret, nr_plugs, plug_arg >>

\* an md_handle_eio without the test of nr_online_disks
md_handle_eio_nocount(fault_path) ==
  IF ~enable_md
  THEN /\ eio_ret' = SD_RES_EIO
       /\ UNCHANGED << wqvars, lkvars, scvars, iqvars, thvars, enable_md, md_disks, md_nr_disks, md_vds,
                       md_nr_vds, disk_space, kicked, plug_ret, nr_plugs, plug_arg >>
  ELSE /\ next_work <= MaxWorks
       /\ work' = [work EXCEPT ![next_work] =
                     [fn |-> FALSE, done |-> "md_do_recover", path |-> fault_path]]
       /\ next_work' = next_work + 1
       /\ queue_work(next_work)
       /\ eio_ret' = SD_RES_NETWORK_ERROR
       /\ UNCHANGED << tc, nr_running, finished_list, nr_nodes, efd, wloop,
                       wwait, wwoken, wnotify, hold, list, ndone, lkvars, scvars, iqvars, thvars,
                       enable_md, md_disks, md_nr_disks, md_vds, md_nr_vds,
                       disk_space, kicked, plug_ret, nr_plugs, plug_arg >>

\* lines 427-444: an I/O on fault_path has failed with EIO
md_handle_eio(fault_path) ==
  IF ~enable_md \/ md_nr_disks = 0
  THEN /\ eio_ret' = SD_RES_EIO
       /\ UNCHANGED << wqvars, lkvars, scvars, iqvars, thvars, enable_md, md_disks, md_nr_disks, md_vds,
                       md_nr_vds, disk_space, kicked, plug_ret, nr_plugs, plug_arg >>
  ELSE /\ next_work <= MaxWorks
       /\ work' = [work EXCEPT ![next_work] =
                     [fn |-> FALSE, done |-> "md_do_recover", path |-> fault_path]]
       /\ next_work' = next_work + 1
       /\ queue_work(next_work)
       /\ eio_ret' = SD_RES_NETWORK_ERROR
       /\ UNCHANGED << tc, nr_running, finished_list, nr_nodes, efd, wloop,
                       wwait, wwoken, wnotify, hold, list, ndone, lkvars, scvars, iqvars, thvars,
                       enable_md, md_disks, md_nr_disks, md_vds, md_nr_vds,
                       disk_space, kicked, plug_ret, nr_plugs, plug_arg >>

MdHandleEio == \E fault_path \in Paths : md_handle_eio(fault_path)

\* an md_del_disk that removes the first disk when the path is not known
md_del_disk_any(d, path) ==
  LET idx == path_to_disk_idx(d, path) IN
  IF idx < 0 THEN (IF d.nr > 0 THEN remove_disk(d, 0) ELSE d) ELSE remove_disk(d, idx)

\* lines 558-567
md_del_disk(d, path) ==
  LET idx == path_to_disk_idx(d, path) IN
  IF idx < 0 THEN d ELSE remove_disk(d, idx)

\* lines 575-581: the paths of the list, one after the other
RECURSIVE plug_loop(_, _, _, _)
plug_loop(d, disks, plug, nomk) ==
  IF disks = << >> THEN d
  ELSE plug_loop(IF plug THEN md_add_disk(d, Head(disks), nomk)
                         ELSE md_del_disk(d, Head(disks)),
                 Tail(disks), plug, nomk)

\* a do_plug_unplug without the bail-out of lines 583-585
do_plug_unplug_always(disks, plug) ==
  /\ nr_plugs < MaxPlugs
  /\ nr_plugs' = nr_plugs + 1
  /\ plug_arg' = [disks |-> disks, plug |-> plug]
  /\ \E nomk \in (IF plug THEN SUBSET ({ disks[i] : i \in 1..Len(disks) }
                                            \ OnlinePaths(md_array))
                           ELSE { {} }) :
       LET d == plug_loop(md_array, disks, plug, nomk) IN
       /\ \E fail \in SUBSET OnlinePaths(d) :
            \E r \in md_init_space(d, fail) :
              /\ md_set(r)
              /\ kicked' = (r.nr > 0)
       /\ plug_ret' = SD_RES_SUCCESS
  /\ UNCHANGED << wqvars, lkvars, scvars, iqvars, thvars, eio_ret >>

\* lines 569-601, under the write lock
do_plug_unplug(disks, plug) ==
  /\ nr_plugs < MaxPlugs
  /\ nr_plugs' = nr_plugs + 1
  /\ plug_arg' = [disks |-> disks, plug |-> plug]
  /\ \E nomk \in (IF plug THEN SUBSET ({ disks[i] : i \in 1..Len(disks) }
                                            \ OnlinePaths(md_array))
                           ELSE { {} }) :
       LET d == plug_loop(md_array, disks, plug, nomk) IN
       IF md_nr_disks = d.nr
       THEN /\ plug_ret' = SD_RES_UNKNOWN
            /\ UNCHANGED << enable_md, md_disks, md_nr_disks, md_vds, md_nr_vds,
                            disk_space >>
            /\ kicked' = FALSE
       ELSE /\ \E fail \in SUBSET OnlinePaths(d) :
                 \E r \in md_init_space(d, fail) :
                   /\ md_set(r)
                   /\ kicked' = (r.nr > 0)
            /\ plug_ret' = SD_RES_SUCCESS
  /\ UNCHANGED << wqvars, lkvars, scvars, iqvars, thvars, eio_ret >>

\* the comma-separated lists of paths given to plug and unplug; a path
\* that comes twice in a list is refused the second time (duplicate path,
\* invalid path), so the lists tried name each path once
PathLists ==
  { l \in UNION { [1..n -> Paths] : n \in 1..MaxDisks } :
      \A i, j \in 1..Len(l) : i # j => l[i] # l[j] }

md_plug_disks == \E disks \in PathLists : do_plug_unplug(disks, TRUE)

md_unplug_disks == \E disks \in PathLists : do_plug_unplug(disks, FALSE)

(* ------------------------ bs_thread_request_done ----------------------- *)
\* list_splice, which leaves the items on the finished list
list_splice_noinit(l) == l

\* list_splice_init leaves the finished list empty (line 163)
list_splice_init(l) == << >>

\* lines 157-164: the event loop calls back when efd is readable and no
\* callback is running; the read resets the counter; the finished list of
\* the queue is moved to the local list
EventfdRead ==
  /\ list = << >>
  /\ efd > 0
  /\ efd' = 0
  /\ list' = finished_list \o list
  /\ finished_list' = list_splice_init(finished_list)
  /\ UNCHANGED << tc, nr_threads, nr_pending, nr_running, tm_end_of_protection,
                  pending_list, nr_nodes, now, nsignal, next_work, work,
                  wstart, wloop, wwait, wwoken, wnotify, hold, ndone, last_grow, create_ret, lkvars, mdvars, scvars, iqvars, thvars >>

\* work->done(work), for the work items of Submit: the call is counted
done_count(w) ==
  /\ ndone' = [ndone EXCEPT ![w] = @ + 1]
  /\ work' = [work EXCEPT ![w] = NoWork]
  /\ UNCHANGED mdvars

\* lines 166-171, one turn of the loop
DoneCall ==
  /\ list # << >>
  /\ list' = list_del(list, list_first_entry(list))
  /\ IF work[list_first_entry(list)].done = "md_do_recover"
     THEN md_do_recover(list_first_entry(list))
     ELSE done_count(list_first_entry(list))
  /\ UNCHANGED << tc, nr_threads, nr_pending, nr_running, tm_end_of_protection,
                  pending_list, finished_list, nr_nodes, now, efd, nsignal,
                  next_work, wstart, wloop, wwait, wwoken, wnotify, hold,
                  last_grow, create_ret, lkvars, scvars, iqvars, thvars >>

(* -------------------------- oid_to_vdisk_from -------------------------- *)
\* one turn of the for (;;) loop (lines 73-79) on the ring vds, an array
\* indexed from 0, for the hash id: the entry returned (ret >= 0), or the
\* new start and end (ret = -1)
oid_to_vdisk_loop(vds, id, start, end) ==
  LET pos == (end - start) \div 2 + start IN
  IF vds[pos].id < id
  THEN IF vds[pos + 1].id >= id
       THEN [ret |-> pos + 1, start |-> start, end |-> end]
       ELSE [ret |-> -1, start |-> pos, end |-> end]
  ELSE [ret |-> -1, start |-> start, end |-> pos]

\* lines 66-70: the hash lies outside the ring, entry 0 is returned
oid_to_vdisk_wrap(vds, nr, id) == id > vds[nr - 1].id \/ id < vds[0].id

\* the call, up to the loop
LookupCall ==
  /\ lk_pc = "call"
  /\ lk_start' = 0
  /\ lk_end' = lk_nr - 1
  /\ IF oid_to_vdisk_wrap(lk_vds, lk_nr, lk_id)
     THEN lk_ret' = 0 /\ lk_pc' = "done"
     ELSE lk_ret' = lk_ret /\ lk_pc' = "loop"
  /\ UNCHANGED << lk_vds, lk_nr, lk_id, wqvars, mdvars, scvars, iqvars, thvars >>

\* one turn of the loop
LookupLoop ==
  /\ lk_pc = "loop"
  /\ LET r == oid_to_vdisk_loop(lk_vds, lk_id, lk_start, lk_end) IN
       /\ lk_start' = r.start
       /\ lk_end' = r.end
       /\ IF r.ret >= 0
          THEN lk_ret' = r.ret /\ lk_pc' = "done"
          ELSE lk_ret' = lk_ret /\ lk_pc' = "loop"
  /\ UNCHANGED << lk_vds, lk_nr, lk_id, wqvars, mdvars, scvars, iqvars, thvars >>

\* oid_to_vdisk_from run to its end: the index of the entry returned, or
\* -1 when the loop has come to a turn that changes nothing
RECURSIVE oid_to_vdisk_run(_, _, _, _)
oid_to_vdisk_run(vds, id, start, end) ==
  LET r == oid_to_vdisk_loop(vds, id, start, end) IN
  IF r.ret >= 0 THEN r.ret
  ELSE IF r.start = start /\ r.end = end THEN -1
  ELSE oid_to_vdisk_run(vds, id, r.start, r.end)

\* the hashes of the objects the lookups are made for, each computed once
oid_hashes == [oid \in Oids |-> oid_hash(oid)]

oid_to_vdisk_from(vds, nr, oid) ==
  IF oid_to_vdisk_wrap(vds, nr, oid_hashes[oid]) THEN 0
  ELSE oid_to_vdisk_run(vds, oid_hashes[oid], 0, nr - 1)

\* md.c lines 334-349: the path returned for oid.  ObjPath is obj_path, the
\* directory of a sheep without multi-disk; NoReturn tells that the lookup
\* does not come back
ObjPath == -2
NoReturn == -3

get_object_path(oid) ==
  IF ~enable_md THEN ObjPath
  ELSE LET vd == oid_to_vdisk_from(md_vds, md_nr_vds, oid) IN
       IF vd < 0 THEN NoReturn ELSE md_disks[md_vds[vd].idx].path

\* md.c lines 539-556: info->nr and the paths of info->disk
md_get_info == [i \in 0..(md_nr_disks - 1) |-> md_disks[i].path]

(* --------------------------- md.c: md_exist ---------------------------- *)
ScanThreads == 1..MaxScan

\* a thread inside scan_wd
Scanning(t) == sc_pc[t] \in {"scan", "rename"}

\* md.c lines 511-513: the call, get_object_path and md_access of the file
\* under it.  The lookup may not come back; a file found there ends the call
md_exist(t) ==
  /\ sc_pc[t] = "idle"
  /\ sc_pre' = [sc_pre EXCEPT ![t] = files]
  /\ sc_i' = [sc_i EXCEPT ![t] = 0]
  /\ LET path == get_object_path(sc_oid) IN
       /\ sc_pc' = [sc_pc EXCEPT ![t] = IF path = NoReturn THEN "hang"
                                        ELSE IF path \in files THEN "done"
                                        ELSE "scan"]
       /\ sc_ret' = [sc_ret EXCEPT ![t] = IF path \in files THEN "true" ELSE "none"]
       /\ sc_scan' = [sc_scan EXCEPT ![t] = path \notin files /\ path # NoReturn]
       /\ sc_alone' = [u \in ScanThreads |->
                         IF u = t THEN \A v \in ScanThreads \ {t} : ~Scanning(v)
                         ELSE IF Scanning(u) /\ path \notin files THEN FALSE
                         ELSE sc_alone[u]]
  /\ UNCHANGED << files, sc_oid, wqvars, lkvars, mdvars, iqvars, thvars >>

\* lines 498-502 and 473-474: the loop test of scan_wd, and md_access of
\* the file under disk i in get_old_new_path; after the last disk scan_wd
\* returns SD_RES_EIO and md_exist false
scan_access(t) ==
  /\ sc_pc[t] = "scan"
  /\ IF sc_i[t] >= md_nr_disks
     THEN /\ sc_pc' = [sc_pc EXCEPT ![t] = "done"]
          /\ sc_ret' = [sc_ret EXCEPT ![t] = "false"]
          /\ UNCHANGED sc_i
     ELSE IF md_disks[sc_i[t]].path \in files
     THEN /\ sc_pc' = [sc_pc EXCEPT ![t] = "rename"]
          /\ UNCHANGED << sc_i, sc_ret >>
     ELSE /\ sc_i' = [sc_i EXCEPT ![t] = @ + 1]
          /\ UNCHANGED << sc_pc, sc_ret >>
  /\ UNCHANGED << files, sc_oid, sc_pre, sc_scan, sc_alone, wqvars, lkvars, mdvars, iqvars, thvars >>

\* check_and_move with a copy in place of rename: the file of disk i stays
check_and_move_copy(t) ==
  /\ sc_pc[t] = "rename"
  /\ IF md_disks[sc_i[t]].path \in files
     THEN /\ files' = files \cup {get_object_path(sc_oid)}
          /\ sc_pc' = [sc_pc EXCEPT ![t] = "done"]
          /\ sc_ret' = [sc_ret EXCEPT ![t] = "true"]
          /\ UNCHANGED sc_i
     ELSE /\ sc_i' = [sc_i EXCEPT ![t] = @ + 1]
          /\ sc_pc' = [sc_pc EXCEPT ![t] = "scan"]
          /\ UNCHANGED << files, sc_ret >>
  /\ UNCHANGED << sc_oid, sc_pre, sc_scan, sc_alone, wqvars, lkvars, mdvars, iqvars, thvars >>

\* lines 485-490: rename(old, new) moves the file of disk i under the disk
\* of get_object_path; it fails when the file of disk i is gone, and the
\* loop goes on with the next disk
check_and_move(t) ==
  /\ sc_pc[t] = "rename"
  /\ IF md_disks[sc_i[t]].path \in files
     THEN /\ files' = (files \ {md_disks[sc_i[t]].path}) \cup {get_object_path(sc_oid)}
          /\ sc_pc' = [sc_pc EXCEPT ![t] = "done"]
          /\ sc_ret' = [sc_ret EXCEPT ![t] = "true"]
          /\ UNCHANGED sc_i
     ELSE /\ sc_i' = [sc_i EXCEPT ![t] = @ + 1]
          /\ sc_pc' = [sc_pc EXCEPT ![t] = "scan"]
          /\ UNCHANGED << files, sc_ret >>
  /\ UNCHANGED << sc_oid, sc_pre, sc_scan, sc_alone, wqvars, lkvars, mdvars, iqvars, thvars >>

\* md_exist has returned; the thread may call again
md_exist_return(t) ==
  /\ sc_pc[t] = "done"
  /\ sc_pc' = [sc_pc EXCEPT ![t] = "idle"]
  /\ UNCHANGED << files, sc_oid, sc_i, sc_ret, sc_pre, sc_scan, sc_alone,
                  wqvars, lkvars, mdvars, iqvars, thvars >>

(* -------------------------- init_work_queue --------------------------- *)
InitQueues == 1..MaxInit

\* part_001 lines 268-280: xzalloc and the initialisations; startup_lock is
\* free after pthread_mutex_init
init_work_queue ==
  /\ iq_pc = "idle"
  /\ iq_cur <= MaxInit
  /\ startup_lock' = [startup_lock EXCEPT ![iq_cur] = "free"]
  /\ iq_pc' = "lock"
  /\ UNCHANGED << iq_cur, iq_nr_threads, iq_worker, iq_ret, iq_locks, iq_unlocks,
                  worker_info_list, wqvars, lkvars, mdvars, scvars, thvars >>

\* line 115: create_worker_threads takes startup_lock
create_lock ==
  /\ iq_pc = "lock"
  /\ startup_lock[iq_cur] = "free"
  /\ startup_lock' = [startup_lock EXCEPT ![iq_cur] = "main"]
  /\ iq_locks' = [iq_locks EXCEPT ![iq_cur] = @ + 1]
  /\ iq_pc' = "create"
  /\ UNCHANGED << iq_cur, iq_nr_threads, iq_worker, iq_ret, iq_unlocks,
                  worker_info_list, wqvars, lkvars, mdvars, scvars, thvars >>

\* lines 116-126: the loop for one thread.  pthread_create succeeds and
\* nr_threads becomes 1, or it fails and create_worker_threads unlocks
\* startup_lock (line 120) and returns -1, which sends init_work_queue to
\* destroy_threads
create_thread ==
  /\ iq_pc = "create"
  /\ \E ok \in BOOLEAN :
       IF ok
       THEN /\ iq_worker' = [iq_worker EXCEPT ![iq_cur] = "start"]
            /\ iq_nr_threads' = [iq_nr_threads EXCEPT ![iq_cur] = @ + 1]
            /\ iq_pc' = "unlock"
            /\ UNCHANGED << startup_lock, iq_unlocks >>
       ELSE /\ startup_lock' = [startup_lock EXCEPT ![iq_cur] = "free"]
            /\ iq_unlocks' = [iq_unlocks EXCEPT ![iq_cur] = @ + 1]
            /\ iq_pc' = "destroy_threads"
            /\ UNCHANGED << iq_worker, iq_nr_threads >>
  /\ UNCHANGED << iq_cur, iq_ret, iq_locks, worker_info_list,
                  wqvars, lkvars, mdvars, scvars, thvars >>

\* line 127: the unlock after the loop
create_unlock ==
  /\ iq_pc = "unlock"
  /\ startup_lock' = [startup_lock EXCEPT ![iq_cur] = "free"]
  /\ iq_unlocks' = [iq_unlocks EXCEPT ![iq_cur] = @ + 1]
  /\ iq_pc' = "list_add"
  /\ UNCHANGED << iq_cur, iq_nr_threads, iq_worker, iq_ret, iq_locks,
                  worker_info_list, wqvars, lkvars, mdvars, scvars, thvars >>

\* lines 285-287: list_add at the head of worker_info_list and the return
\* of the queue
list_add ==
  /\ iq_pc = "list_add"
  /\ worker_info_list' = << iq_cur >> \o worker_info_list
  /\ iq_ret' = [iq_ret EXCEPT ![iq_cur] = "queue"]
  /\ iq_pc' = "idle"
  /\ iq_cur' = iq_cur + 1
  /\ UNCHANGED << iq_nr_threads, startup_lock, iq_worker, iq_locks, iq_unlocks,
                  wqvars, lkvars, mdvars, scvars, thvars >>

\* line 289: pthread_mutex_unlock(&wi->startup_lock) at destroy_threads.
\* The mutex is not locked here; what unlocking it does is undefined: the
\* call fails and changes nothing, or it leaves the mutex in a state that
\* is neither free nor held
destroy_unlock ==
  /\ iq_pc = "destroy_threads"
  /\ \E after \in {"free", "undefined"} :
       startup_lock' = [startup_lock EXCEPT ![iq_cur] = after]
  /\ iq_unlocks' = [iq_unlocks EXCEPT ![iq_cur] = @ + 1]
  /\ iq_pc' = "destroy"
  /\ UNCHANGED << iq_cur, iq_nr_threads, iq_worker, iq_ret, iq_locks,
                  worker_info_list, wqvars, lkvars, mdvars, scvars, thvars >>

\* lines 290-295: the destroys and return NULL; wi is not freed
destroy_threads ==
  /\ iq_pc = "destroy"
  /\ startup_lock' = [startup_lock EXCEPT ![iq_cur] =
                        IF @ = "free" THEN "destroyed" ELSE @]
  /\ iq_ret' = [iq_ret EXCEPT ![iq_cur] = "NULL"]
  /\ iq_pc' = "idle"
  /\ iq_cur' = iq_cur + 1
  /\ UNCHANGED << iq_nr_threads, iq_worker, iq_locks, iq_unlocks,
                  worker_info_list, wqvars, lkvars, mdvars, scvars, thvars >>

\* lines 183-185: the new worker takes startup_lock, which waits until the
\* maker has released it, and releases it
worker_startup_lock(q) ==
  /\ iq_worker[q] = "start"
  /\ startup_lock[q] = "free"
  /\ startup_lock' = [startup_lock EXCEPT ![q] = "worker"]
  /\ iq_worker' = [iq_worker EXCEPT ![q] = "locked"]
  /\ UNCHANGED << iq_cur, iq_pc, iq_nr_threads, iq_ret, iq_locks, iq_unlocks,
                  worker_info_list, wqvars, lkvars, mdvars, scvars, thvars >>

worker_startup_unlock(q) ==
  /\ iq_worker[q] = "locked"
  /\ startup_lock' = [startup_lock EXCEPT ![q] = "free"]
  /\ iq_worker' = [iq_worker EXCEPT ![q] = "started"]
  /\ UNCHANGED << iq_cur, iq_pc, iq_nr_threads, iq_ret, iq_locks, iq_unlocks,
                  worker_info_list, wqvars, lkvars, mdvars, scvars, thvars >>

(* ------------------- the threads of a queue and their locks ------------ *)
\* the main thread, which makes the queue and then runs the event loop; the
\* threads that report an EIO; the workers
Main == << "main", 0 >>
Subs == { << "sub", i >> : i \in 1..MaxSub }
Wkrs == { << "wkr", i >> : i \in 1..MaxWkr }
Threads == {Main} \cup Subs \cup Wkrs

\* no thread
Free == << "none", 0 >>

Mutexes == {"pending_lock", "startup_lock", "finished_lock"}

\* whether a thread that calls the lock function gets the lock at once:
\* a mutex must be free, pthread_rwlock_rdlock needs no writer,
\* pthread_rwlock_wrlock needs no writer and no reader
Avail(lock) ==
  CASE lock = "none" -> TRUE
    [] lock = "md_rd" -> th_rw.w = Free
    [] lock = "md_wr" -> th_rw.w = Free /\ th_rw.r = {}
    [] OTHER -> th_held[lock] = Free

\* the threads that hold the lock
Holders(lock) ==
  CASE lock = "none" -> {}
    [] lock \in {"md_rd", "md_wr"} -> ({th_rw.w} \ {Free}) \cup th_rw.r
    [] OTHER -> {th_held[lock]} \ {Free}

\* thread t is at place pc and about to take the lock want
At(t, pc, want) == th_pc[t] = pc /\ th_want[t] = want /\ Avail(want)

\* thread t goes to place pc, where it is about to take the lock want
Go(t, pc, want) ==
  /\ th_pc' = [th_pc EXCEPT ![t] = pc]
  /\ th_want' = [th_want EXCEPT ![t] = want]

\* who made the call of create_worker_threads: init_work_queue on the main
\* thread returns to the event loop ("loop") or fails, queue_work goes on
\* to list_add_tail ("add")
AfterCreate(c, ok) == IF c = Main THEN (IF ok THEN "loop" ELSE "failed") ELSE "add"

\* part_001 line 115: pthread_mutex_lock(&wi->startup_lock)
th_create_lock(c) ==
  /\ At(c, "create_lock", "startup_lock")
  /\ th_held' = [th_held EXCEPT !["startup_lock"] = c]
  /\ Go(c, "create", "none")
  /\ UNCHANGED << th_rw, th_nr_threads, th_nr_pending, th_nr_running,
                  th_finished, th_local, th_efd, th_registered, th_counted,
                  th_target, th_cur, th_eio, th_disks, wqvars, lkvars,
                  mdvars, scvars, iqvars >>

\* lines 116-122: pthread_create.  The new thread starts at the
\* pthread_mutex_lock of worker_routine (line 183); a failure unlocks
\* startup_lock and returns -1.  No thread can be made once MaxWkr were
th_pthread_create(c) ==
  /\ At(c, "create", "none")
  /\ \/ /\ \E w \in Wkrs :
             /\ th_pc[w] = "none"
             /\ \A v \in Wkrs : th_pc[v] = "none" => v[2] >= w[2]
             /\ th_pc' = [th_pc EXCEPT ![c] = "register", ![w] = "created"]
             /\ th_want' = [th_want EXCEPT ![w] = "startup_lock"]
             /\ th_cur' = w
        /\ UNCHANGED th_held
     \/ /\ th_held' = [th_held EXCEPT !["startup_lock"] = Free]
        /\ Go(c, AfterCreate(c, FALSE), "none")
        /\ UNCHANGED th_cur
  /\ UNCHANGED << th_rw, th_nr_threads, th_nr_pending, th_nr_running,
                  th_finished, th_local, th_efd, th_registered, th_counted,
                  th_target, th_eio, th_disks, wqvars, lkvars, mdvars,
                  scvars, iqvars >>

\* line 123: trace_register_thread(thread)
th_register(c) ==
  /\ At(c, "register", "none")
  /\ th_registered' = th_registered \cup {th_cur}
  /\ Go(c, "count", "none")
  /\ UNCHANGED << th_held, th_rw, th_nr_threads, th_nr_pending,
                  th_nr_running, th_finished, th_local, th_efd, th_counted,
                  th_target, th_cur, th_eio, th_disks, wqvars, lkvars,
                  mdvars, scvars, iqvars >>

\* lines 124 and 116: wi->nr_threads++ and the loop test
th_count(c) ==
  /\ At(c, "count", "none")
  /\ th_nr_threads' = th_nr_threads + 1
  /\ th_counted' = th_counted \cup {th_cur}
  /\ Go(c, IF th_nr_threads + 1 < th_target THEN "create" ELSE "unlock", "none")
  /\ UNCHANGED << th_held, th_rw, th_nr_pending, th_nr_running,
                  th_finished, th_local, th_efd, th_registered, th_target,
                  th_cur, th_eio, th_disks, wqvars, lkvars, mdvars, scvars,
                  iqvars >>

\* lines 127-129: the unlock after the loop and return 0; init_work_queue
\* then puts the queue on worker_info_list and returns it (lines 285-287)
th_create_unlock(c) ==
  /\ At(c, "unlock", "none")
  /\ th_held' = [th_held EXCEPT !["startup_lock"] = Free]
  /\ Go(c, AfterCreate(c, TRUE), "none")
  /\ UNCHANGED << th_rw, th_nr_threads, th_nr_pending, th_nr_running,
                  th_finished, th_local, th_efd, th_registered, th_counted,
                  th_target, th_cur, th_eio, th_disks, wqvars, lkvars,
                  mdvars, scvars, iqvars >>

\* a worker that does not wait for startup_lock
th_barrier_nolock(w) ==
  /\ th_pc[w] = "created"
  /\ th_held' = [th_held EXCEPT !["startup_lock"] = w]
  /\ Go(w, "barrier", "none")
  /\ UNCHANGED << th_rw, th_nr_threads, th_nr_pending, th_nr_running,
                  th_finished, th_local, th_efd, th_registered, th_counted,
                  th_target, th_cur, th_eio, th_disks, wqvars, lkvars,
                  mdvars, scvars, iqvars >>

\* worker_routine line 183: pthread_mutex_lock(&wi->startup_lock)
th_barrier(w) ==
  /\ At(w, "created", "startup_lock")
  /\ th_held' = [th_held EXCEPT !["startup_lock"] = w]
  /\ Go(w, "barrier", "none")
  /\ UNCHANGED << th_rw, th_nr_threads, th_nr_pending, th_nr_running,
                  th_finished, th_local, th_efd, th_registered, th_counted,
                  th_target, th_cur, th_eio, th_disks, wqvars, lkvars,
                  mdvars, scvars, iqvars >>

\* a worker that counts itself in nr_running before it leaves the barrier:
\* it calls pthread_mutex_lock(&wi->pending_lock) with startup_lock held
th_barrier_count(w) ==
  /\ \/ /\ At(w, "barrier", "none")
        /\ Go(w, "barrier", "pending_lock")
        /\ UNCHANGED << th_held, th_nr_running >>
     \/ /\ At(w, "barrier", "pending_lock")
        /\ th_nr_running' = th_nr_running + 1
        /\ th_held' = [th_held EXCEPT !["startup_lock"] = Free]
        /\ Go(w, "top", "pending_lock")
  /\ UNCHANGED << th_rw, th_nr_threads, th_nr_pending, th_finished,
                  th_local, th_efd, th_registered, th_counted, th_target,
                  th_cur, th_eio, th_disks, wqvars, lkvars, mdvars, scvars,
                  iqvars >>

\* line 185: pthread_mutex_unlock(&wi->startup_lock)
th_barrier_unlock(w) ==
  /\ At(w, "barrier", "none")
  /\ th_held' = [th_held EXCEPT !["startup_lock"] = Free]
  /\ Go(w, "start", "pending_lock")
  /\ UNCHANGED << th_rw, th_nr_threads, th_nr_pending, th_nr_running,
                  th_finished, th_local, th_efd, th_registered, th_counted,
                  th_target, th_cur, th_eio, th_disks, wqvars, lkvars,
                  mdvars, scvars, iqvars >>

\* lines 187-189: wi->nr_running++ under pending_lock
th_running(w) ==
  /\ At(w, "start", "pending_lock")
  /\ th_nr_running' = th_nr_running + 1
  /\ Go(w, "top", "pending_lock")
  /\ UNCHANGED << th_held, th_rw, th_nr_threads, th_nr_pending,
                  th_finished, th_local, th_efd, th_registered, th_counted,
                  th_target, th_cur, th_eio, th_disks, wqvars, lkvars,
                  mdvars, scvars, iqvars >>

\* retest (lines 204-217) with pending_lock held and the worker counted in
\* nr_running (running): pthread_cond_wait on an empty list, which gives
\* the mutex up, else the head is unlinked and the worker goes on, with no
\* lock, to work->fn and then to the lock of the finished list
th_retest(w, running) ==
  IF th_nr_pending = 0
  THEN /\ th_nr_running' = running - 1
       /\ Go(w, "wait", "none")
       /\ UNCHANGED th_nr_pending
  ELSE /\ th_nr_running' = running
       /\ th_nr_pending' = th_nr_pending - 1
       /\ Go(w, "run", "finished_lock")

\* lines 193-217: the top of the loop under pending_lock.  The shrink
\* test with any reading of the clock (expired: the protection period is
\* over); a worker that leaves is unregistered and detached
th_top(w) ==
  /\ At(w, "top", "pending_lock")
  /\ \E expired \in BOOLEAN :
       IF th_nr_pending + th_nr_running <= th_nr_threads \div 2 /\ expired
       THEN /\ th_nr_running' = th_nr_running - 1
            /\ th_nr_threads' = th_nr_threads - 1
            /\ th_registered' = th_registered \ {w}
            /\ Go(w, "exited", "none")
            /\ UNCHANGED th_nr_pending
       ELSE /\ th_retest(w, th_nr_running)
            /\ UNCHANGED << th_nr_threads, th_registered >>
  /\ UNCHANGED << th_held, th_rw, th_finished, th_local, th_efd,
                  th_counted, th_target, th_cur, th_eio, th_disks, wqvars,
                  lkvars, mdvars, scvars, iqvars >>

\* lines 207-209: pthread_cond_wait returns with the mutex, nr_running++,
\* retest
th_wake(w) ==
  /\ At(w, "woken", "pending_lock")
  /\ th_retest(w, th_nr_running + 1)
  /\ UNCHANGED << th_held, th_rw, th_nr_threads, th_finished, th_local,
                  th_efd, th_registered, th_counted, th_target, th_cur,
                  th_eio, th_disks, wqvars, lkvars, mdvars, scvars, iqvars >>

\* lines 219-224: work->fn, if any, has returned; list_add_tail to the
\* finished list under finished_lock
th_finish(w) ==
  /\ At(w, "run", "finished_lock")
  /\ th_finished' = th_finished + 1
  /\ Go(w, "notify", "none")
  /\ UNCHANGED << th_held, th_rw, th_nr_threads, th_nr_pending,
                  th_nr_running, th_local, th_efd, th_registered,
                  th_counted, th_target, th_cur, th_eio, th_disks, wqvars,
                  lkvars, mdvars, scvars, iqvars >>

\* line 226: eventfd_write(efd, 1)
th_notify(w) ==
  /\ At(w, "notify", "none")
  /\ th_efd' = th_efd + 1
  /\ Go(w, "top", "pending_lock")
  /\ UNCHANGED << th_held, th_rw, th_nr_threads, th_nr_pending,
                  th_nr_running, th_finished, th_local, th_registered,
                  th_counted, th_target, th_cur, th_eio, th_disks, wqvars,
                  lkvars, mdvars, scvars, iqvars >>

\* md.c lines 427-434: md_handle_eio on a thread that got EIO from a disk;
\* multi-disk is enabled and the md queue exists.  nr_online_disks comes
\* next, at its pthread_rwlock_rdlock
th_md_handle_eio(s) ==
  /\ At(s, "idle", "none")
  /\ th_pc[Main] \in {"loop", "splice", "done", "recover"}
  /\ th_eio < MaxEio
  /\ th_eio' = th_eio + 1
  /\ Go(s, "online", "md_rd")
  /\ UNCHANGED << th_held, th_rw, th_nr_threads, th_nr_pending,
                  th_nr_running, th_finished, th_local, th_efd,
                  th_registered, th_counted, th_target, th_cur, th_disks,
                  wqvars, lkvars, mdvars, scvars, iqvars >>

\* md.c line 54: pthread_rwlock_rdlock(&md_lock) in nr_online_disks
th_nr_online_disks(s) ==
  /\ At(s, "online", "md_rd")
  /\ th_rw' = [th_rw EXCEPT !.r = @ \cup {s}]
  /\ Go(s, "online_rd", "none")
  /\ UNCHANGED << th_held, th_nr_threads, th_nr_pending, th_nr_running,
                  th_finished, th_local, th_efd, th_registered, th_counted,
                  th_target, th_cur, th_eio, th_disks, wqvars, lkvars,
                  mdvars, scvars, iqvars >>

\* md.c lines 55-56 and 434-440: the count is read, md_lock is released;
\* with no disk online md_handle_eio returns, else it calls queue_work,
\* which starts at pthread_mutex_lock(&wi->pending_lock)
th_online_unlock(s) ==
  /\ At(s, "online_rd", "none")
  /\ th_rw' = [th_rw EXCEPT !.r = @ \ {s}]
  /\ IF th_disks = 0 THEN Go(s, "idle", "none") ELSE Go(s, "queue", "pending_lock")
  /\ UNCHANGED << th_held, th_nr_threads, th_nr_pending, th_nr_running,
                  th_finished, th_local, th_efd, th_registered, th_counted,
                  th_target, th_cur, th_eio, th_disks, wqvars, lkvars,
                  mdvars, scvars, iqvars >>

\* wq_need_grow after nr_pending++
th_need_grow(pending) ==
  /\ th_nr_threads < pending + th_nr_running
  /\ th_nr_threads * 2 <= wq_get_roof(tc)

\* part_001 lines 136-141: pending_lock is taken, nr_pending++; a grow
\* calls create_worker_threads(wi, nr_threads * 2) with pending_lock held
th_queue_work(s) ==
  /\ At(s, "queue", "pending_lock")
  /\ th_held' = [th_held EXCEPT !["pending_lock"] = s]
  /\ th_nr_pending' = th_nr_pending + 1
  /\ IF th_need_grow(th_nr_pending + 1)
     THEN /\ th_target' = th_nr_threads * 2
          /\ Go(s, "create_lock", "startup_lock")
     ELSE /\ UNCHANGED th_target
          /\ Go(s, "add", "none")
  /\ UNCHANGED << th_rw, th_nr_threads, th_nr_running, th_finished,
                  th_local, th_efd, th_registered, th_counted, th_cur,
                  th_eio, th_disks, wqvars, lkvars, mdvars, scvars, iqvars >>

\* lines 143-144: list_add_tail and the unlock of pending_lock
th_list_add_tail(s) ==
  /\ At(s, "add", "none")
  /\ th_held' = [th_held EXCEPT !["pending_lock"] = Free]
  /\ Go(s, "signal", "none")
  /\ UNCHANGED << th_rw, th_nr_threads, th_nr_pending, th_nr_running,
                  th_finished, th_local, th_efd, th_registered, th_counted,
                  th_target, th_cur, th_eio, th_disks, wqvars, lkvars,
                  mdvars, scvars, iqvars >>

\* line 146: pthread_cond_signal wakes one worker that waits, if any; the
\* worker then takes pending_lock again
th_cond_signal(s) ==
  /\ At(s, "signal", "none")
  /\ IF \E w \in Wkrs : th_pc[w] = "wait"
     THEN \E w \in Wkrs :
            /\ th_pc[w] = "wait"
            /\ th_pc' = [th_pc EXCEPT ![s] = "idle", ![w] = "woken"]
            /\ th_want' = [th_want EXCEPT ![w] = "pending_lock"]
     ELSE Go(s, "idle", "none")
  /\ UNCHANGED << th_held, th_rw, th_nr_threads, th_nr_pending,
                  th_nr_running, th_finished, th_local, th_efd,
                  th_registered, th_counted, th_target, th_cur, th_eio,
                  th_disks, wqvars, lkvars, mdvars, scvars, iqvars >>

\* lines 157-159: the event loop calls bs_thread_request_done when efd is
\* readable; eventfd_read resets the counter
th_eventfd_read ==
  /\ At(Main, "loop", "none")
  /\ th_efd > 0
  /\ th_efd' = 0
  /\ Go(Main, "splice", "finished_lock")
  /\ UNCHANGED << th_held, th_rw, th_nr_threads, th_nr_pending,
                  th_nr_running, th_finished, th_local, th_registered,
                  th_counted, th_target, th_cur, th_eio, th_disks, wqvars,
                  lkvars, mdvars, scvars, iqvars >>

\* lines 162-166: list_splice_init under finished_lock; the first done call,
\* md_do_recover, starts at pthread_rwlock_wrlock(&md_lock)
th_list_splice_init ==
  /\ At(Main, "splice", "finished_lock")
  /\ th_local' = th_local + th_finished
  /\ th_finished' = 0
  /\ IF th_local + th_finished > 0
     THEN Go(Main, "done", "md_wr")
     ELSE Go(Main, "loop", "none")
  /\ UNCHANGED << th_held, th_rw, th_nr_threads, th_nr_pending,
                  th_nr_running, th_efd, th_registered, th_counted,
                  th_target, th_cur, th_eio, th_disks, wqvars, lkvars,
                  mdvars, scvars, iqvars >>

\* part_001 lines 167-170 and md.c line 413: the head of the local list is
\* unlinked and its done, md_do_recover, takes md_lock for writing
th_md_do_recover_lock ==
  /\ At(Main, "done", "md_wr")
  /\ th_rw' = [th_rw EXCEPT !.w = Main]
  /\ th_local' = th_local - 1
  /\ Go(Main, "recover", "none")
  /\ UNCHANGED << th_held, th_nr_threads, th_nr_pending, th_nr_running,
                  th_finished, th_efd, th_registered, th_counted,
                  th_target, th_cur, th_eio, th_disks, wqvars, lkvars,
                  mdvars, scvars, iqvars >>

\* md.c lines 414-424: the path is not online and nothing changes, or the
\* disk is removed and md_init_space may drop more; kick_recover; the
\* unlock.  Then the next item of the local list, or back to the event loop
th_md_do_recover ==
  /\ At(Main, "recover", "none")
  /\ \E n \in 0..th_disks : th_disks' = n
  /\ th_rw' = [th_rw EXCEPT !.w = Free]
  /\ IF th_local > 0
     THEN Go(Main, "done", "md_wr")
     ELSE Go(Main, "loop", "none")
  /\ UNCHANGED << th_held, th_nr_threads, th_nr_pending, th_nr_running,
                  th_finished, th_local, th_efd, th_registered, th_counted,
                  th_target, th_cur, th_eio, wqvars, lkvars, mdvars,
                  scvars, iqvars >>

(* ----------------------------- specification --------------------------- *)
\* init_work_queue has returned: one worker created, nothing queued
InitQueue(policies, times) ==
  /\ tc \in policies
  /\ nr_threads = 1
  /\ nr_pending = 0
  /\ nr_running = 0
  /\ tm_end_of_protection = 0
  /\ pending_list = << >>
  /\ finished_list = << >>
  /\ now \in times
  /\ efd = 0
  /\ nsignal = 0
  /\ next_work = 1
  /\ work = [w \in Works |-> NoWork]
  /\ wstart = 1
  /\ wloop = 0
  /\ wwait = 0
  /\ wwoken = 0
  /\ wnotify = 0
  /\ hold = [w \in Works |-> "none"]
  /\ list = << >>
  /\ ndone = [w \in Works |-> 0]
  /\ last_grow = -1
  /\ create_ret = 0

\* no lookup is under way
InitNoLookup ==
  /\ lk_vds = << >>
  /\ lk_nr = 0
  /\ lk_id = 0
  /\ lk_start = 0
  /\ lk_end = 0
  /\ lk_pc = "none"
  /\ lk_ret = -1

\* md.c before any disk is added: the static arrays are zeroed
NoDisks == [disks |-> [i \in Paths |-> [path |-> NoPath, nr_vdisks |-> 0, space |-> 0]],
            nr |-> 0]

InitNoDisks ==
  /\ enable_md = FALSE
  /\ md_disks = NoDisks.disks
  /\ md_nr_disks = 0
  /\ md_vds = << >>
  /\ md_nr_vds = 0
  /\ disk_space = 0
  /\ kicked = FALSE
  /\ eio_ret = "none"
  /\ plug_ret = "none"
  /\ nr_plugs = 0
  /\ plug_arg = [disks |-> << >>, plug |-> FALSE]

\* no md_exist is under way
InitNoScan ==
  /\ files = {}
  /\ sc_oid = 1
  /\ sc_pc = [t \in ScanThreads |-> "idle"]
  /\ sc_i = [t \in ScanThreads |-> 0]
  /\ sc_ret = [t \in ScanThreads |-> "none"]
  /\ sc_pre = [t \in ScanThreads |-> {}]
  /\ sc_scan = [t \in ScanThreads |-> FALSE]
  /\ sc_alone = [t \in ScanThreads |-> TRUE]

\* no thread of the specification with locks exists
InitNoThreads ==
  /\ th_pc = [t \in Threads |-> "none"]
  /\ th_want = [t \in Threads |-> "none"]
  /\ th_held = [m \in Mutexes |-> Free]
  /\ th_rw = [w |-> Free, r |-> {}]
  /\ th_nr_threads = 0
  /\ th_nr_pending = 0
  /\ th_nr_running = 0
  /\ th_finished = 0
  /\ th_local = 0
  /\ th_efd = 0
  /\ th_registered = {}
  /\ th_counted = {}
  /\ th_target = 0
  /\ th_cur = Free
  /\ th_eio = 0
  /\ th_disks = 0

\* no init_work_queue has been called
InitNoQueues ==
  /\ iq_cur = 1
  /\ iq_pc = "idle"
  /\ iq_nr_threads = [q \in InitQueues |-> 0]
  /\ startup_lock = [q \in InitQueues |-> "none"]
  /\ iq_worker = [q \in InitQueues |-> "none"]
  /\ iq_ret = [q \in InitQueues |-> "none"]
  /\ iq_locks = [q \in InitQueues |-> 0]
  /\ iq_unlocks = [q \in InitQueues |-> 0]
  /\ worker_info_list = << >>

Init ==
  /\ InitQueue({WQ_ORDERED, WQ_DYNAMIC, WQ_UNLIMITED}, {0})
  /\ nr_nodes \in (IF tc = WQ_DYNAMIC THEN 1..MaxNodes ELSE {1})
  /\ InitNoLookup
  /\ InitNoDisks
  /\ InitNoScan
  /\ InitNoQueues
  /\ InitNoThreads

Worker ==
  \/ WorkerStartup
  \/ WorkerLoop
  \/ WorkerWake
  \/ \E w \in Works : WorkerFinish(w)
  \/ WorkerNotify

Completion ==
  \/ EventfdRead
  \/ DoneCall

Next ==
  \/ Submit
  \/ CondSignal
  \/ Worker
  \/ Completion

Spec == Init /\ [][Next]_vars

\* every thread that can take a step is scheduled in the end: the submitter
\* between unlock and pthread_cond_signal, the workers, the event loop.
\* Submitting is up to the callers, and no step waits for the clock.
Fairness ==
  /\ WF_vars(CondSignal)
  /\ WF_vars(WorkerStartup)
  /\ WF_vars(WorkerLoop)
  /\ WF_vars(WorkerWake)
  /\ \A w \in Works : WF_vars(WorkerFinish(w))
  /\ WF_vars(WorkerNotify)
  /\ WF_vars(EventfdRead)
  /\ WF_vars(DoneCall)

FairSpec == Spec /\ Fairness

\* oid_to_vdisk_from on its own: a ring sorted ascending by id, as qsort
\* leaves it (line 117), and the hash of an oid
SortedRings ==
  UNION { { v \in [0..(n - 1) -> [idx : {0}, id : 0..MaxId]] :
              \A i \in 0..(n - 2) : v[i].id <= v[i + 1].id } : n \in 1..MaxRing }

InitRing ==
  /\ InitQueue({WQ_ORDERED}, {0})
  /\ nr_nodes = 1
  /\ lk_vds \in SortedRings
  /\ lk_nr = Cardinality(DOMAIN lk_vds)
  /\ lk_id \in 0..(MaxId + 1)
  /\ lk_start = 0
  /\ lk_end = 0
  /\ lk_pc = "call"
  /\ lk_ret = -1
  /\ InitNoDisks
  /\ InitNoScan
  /\ InitNoQueues
  /\ InitNoThreads

NextRing == LookupCall \/ LookupLoop

SpecRing == InitRing /\ [][NextRing]_vars

\* the multi-disk layer of a sheep started on a list of distinct paths:
\* md_add_disk for each, then md_init_space, with any of the paths broken.
\* EIO recovery runs on sys->md_wqueue, an ordered queue: it neither grows
\* nor shrinks, whatever its worker reads from the clock, and the clock is
\* taken at its last reading
StartLists == { << >> } \cup PathLists

InitDisks ==
  /\ \E l \in StartLists :
       LET d == plug_loop(NoDisks, l, TRUE, {}) IN
       \E fail \in SUBSET OnlinePaths(d) :
         \E r \in md_init_space(d, fail) :
           /\ md_disks = r.disks
           /\ md_nr_disks = r.nr
           /\ md_vds = r.vds
           /\ md_nr_vds = Cardinality(DOMAIN r.vds)
           /\ enable_md = r.built
           /\ disk_space = r.total
  /\ kicked = FALSE
  /\ eio_ret = "none"
  /\ plug_ret = "none"
  /\ nr_plugs = 0
  /\ plug_arg = [disks |-> << >>, plug |-> FALSE]

InitMD ==
  /\ InitQueue({WQ_ORDERED}, {MaxTicks * TickMs})
  /\ nr_nodes = 1
  /\ InitNoLookup
  /\ InitDisks
  /\ InitNoScan
  /\ InitNoQueues
  /\ InitNoThreads

NextMD ==
  \/ MdHandleEio
  \/ md_plug_disks
  \/ md_unplug_disks
  \/ CondSignal
  \/ Worker
  \/ Completion

SpecMD == InitMD /\ [][NextMD]_vars

\* md_exist of one object by several threads on the disks sheep was
\* started on; the file of the object lies under any of the disk
\* directories, and no disk is added or removed meanwhile
InitScan ==
  /\ InitQueue({WQ_ORDERED}, {MaxTicks * TickMs})
  /\ nr_nodes = 1
  /\ InitNoLookup
  /\ InitDisks
  /\ files \in SUBSET Paths
  /\ sc_oid \in Oids
  /\ sc_pc = [t \in ScanThreads |-> "idle"]
  /\ sc_i = [t \in ScanThreads |-> 0]
  /\ sc_ret = [t \in ScanThreads |-> "none"]
  /\ sc_pre = [t \in ScanThreads |-> {}]
  /\ sc_scan = [t \in ScanThreads |-> FALSE]
  /\ sc_alone = [t \in ScanThreads |-> TRUE]
  /\ InitNoQueues
  /\ InitNoThreads

NextScan ==
  \E t \in ScanThreads :
    \/ md_exist(t)
    \/ scan_access(t)
    \/ check_and_move(t)
    \/ md_exist_return(t)

SpecScan == InitScan /\ [][NextScan]_vars

\* the main thread makes MaxInit queues one after the other, as sheep does
\* at start; the first worker of each runs its start-up beside it
InitInit ==
  /\ InitQueue({WQ_ORDERED}, {0})
  /\ nr_nodes = 1
  /\ InitNoLookup
  /\ InitNoDisks
  /\ InitNoScan
  /\ InitNoQueues
  /\ InitNoThreads

NextInit ==
  \/ init_work_queue
  \/ create_lock
  \/ create_thread
  \/ create_unlock
  \/ list_add
  \/ destroy_unlock
  \/ destroy_threads
  \/ \E q \in InitQueues : worker_startup_lock(q) \/ worker_startup_unlock(q)

SpecInit == InitInit /\ [][NextInit]_vars

\* the md queue with its threads and locks: the main thread is in
\* init_work_queue, at the call of create_worker_threads(wi, 1), and runs
\* the event loop afterwards; the other threads report EIOs of the disks
InitLock ==
  /\ InitQueue({WQ_DYNAMIC}, {MaxTicks * TickMs})
  /\ nr_nodes = 1
  /\ InitNoLookup
  /\ InitNoDisks
  /\ InitNoScan
  /\ InitNoQueues
  /\ th_pc = [t \in Threads |->
                IF t = Main THEN "create_lock"
                ELSE IF t \in Subs THEN "idle" ELSE "none"]
  /\ th_want = [t \in Threads |-> IF t = Main THEN "startup_lock" ELSE "none"]
  /\ th_held = [m \in Mutexes |-> Free]
  /\ th_rw = [w |-> Free, r |-> {}]
  /\ th_nr_threads = 0
  /\ th_nr_pending = 0
  /\ th_nr_running = 0
  /\ th_finished = 0
  /\ th_local = 0
  /\ th_efd = 0
  /\ th_registered = {}
  /\ th_counted = {}
  /\ th_target = 1
  /\ th_cur = Free
  /\ th_eio = 0
  /\ th_disks \in 0..MaxDisks

Creator ==
  \E c \in {Main} \cup Subs :
    \/ th_create_lock(c)
    \/ th_pthread_create(c)
    \/ th_register(c)
    \/ th_count(c)
    \/ th_create_unlock(c)

LockWorker ==
  \E w \in Wkrs :
    \/ th_barrier(w)
    \/ th_barrier_unlock(w)
    \/ th_running(w)
    \/ th_top(w)
    \/ th_wake(w)
    \/ th_finish(w)
    \/ th_notify(w)

Reporter ==
  \E s \in Subs :
    \/ th_md_handle_eio(s)
    \/ th_nr_online_disks(s)
    \/ th_online_unlock(s)
    \/ th_queue_work(s)
    \/ th_list_add_tail(s)
    \/ th_cond_signal(s)

EventLoop ==
  \/ th_eventfd_read
  \/ th_list_splice_init
  \/ th_md_do_recover_lock
  \/ th_md_do_recover

NextLock == Creator \/ LockWorker \/ Reporter \/ EventLoop

SpecLock == InitLock /\ [][NextLock]_vars

(* ------------------------------- claims -------------------------------- *)
InList(l, w) == \E i \in 1..Len(l) : l[i] = w
Submitted(w) == w < next_work
\* the item has left its worker: work->fn, if any, has returned
Ran(w) == Submitted(w) /\ hold[w] = "none" /\ ~InList(pending_list, w)
AllDone == next_work > MaxWorks /\ \A w \in Works : ndone[w] = 1

\* C1: done is called at most once per work item, only by the completion
\* callback for the head of its local list, and only when no worker holds
\* the item any more (its run callback, if any, has returned).
C1_DoneAtMostOnce ==
  [][\A w \in Works : ndone'[w] # ndone[w] =>
        /\ ndone[w] = 0 /\ ndone'[w] = 1
        /\ list # << >> /\ w = Head(list) /\ list' = Tail(list)
        /\ Ran(w)
        /\ ~InList(finished_list, w)]_vars

C1_Witness == AllDone

\* C2: under fair scheduling every submitted work item gets its done call,
\* for every policy, also when pthread_create fails during a grow.
C2_NoWorkLoss == \A w \in Works : [](Submitted(w) => <>(ndone[w] = 1))

\* every item is done after a grow in which pthread_create failed and after
\* a worker left by shrinking
C2_Witness == AllDone /\ create_ret = -1 /\ last_grow >= 0 /\ nr_threads = 1

\* C3: on an ORDERED queue a worker takes an item (and calls its run
\* callback) only when no other item is held by a worker and every item
\* submitted before it has left its worker.
C3_OrderedSerial ==
  [][tc = WQ_ORDERED =>
       \A w \in Works : (hold[w] = "none" /\ hold'[w] # "none") =>
          /\ \A v \in Works \ {w} : hold[v] = "none"
          /\ \A v \in 1..(w - 1) : Ran(v)]_vars

\* a worker holds the last item while the first is done
C3_Witness == tc = WQ_ORDERED /\ hold[MaxWorks] # "none" /\ ndone[1] = 1

C5_ProtectionWindow ==
  [][nr_threads' < nr_threads =>
       (last_grow = -1 \/ now' >= last_grow + WQ_PROTECTION_PERIOD)]_vars

\* a queue that grew in full and is back to one thread
C5_Witness ==
  last_grow >= 0 /\ create_ret = 0 /\ nr_threads = 1 /\ wstart = 0

\* C6: once everything submitted to a DYNAMIC queue is done and nothing more
\* is submitted, the thread count falls to 1 or less.
Quiescent ==
  /\ tc = WQ_DYNAMIC
  /\ AllDone
  /\ pending_list = << >> /\ finished_list = << >> /\ list = << >>
  /\ \A w \in Works : hold[w] = "none"

C6_ShrinkAfterQuiescence == Quiescent ~> (nr_threads <= 1)

\* C7: on a non-empty ring sorted by id, oid_to_vdisk_from comes to an end
\* (no turn of its loop leaves start and end as they were without
\* returning) and returns the lowest entry with id >= h, or entry 0 when
\* there is none.
LowestGE(vds, nr, id) ==
  LET ge == { i \in 0..(nr - 1) : vds[i].id >= id } IN
  IF ge = {} THEN 0 ELSE CHOOSE i \in ge : \A j \in ge : i <= j

C7_RingLookup ==
  /\ lk_pc = "done" => lk_ret = LowestGE(lk_vds, lk_nr, lk_id)
  /\ lk_pc = "loop" =>
        LET r == oid_to_vdisk_loop(lk_vds, lk_id, lk_start, lk_end) IN
        r.ret >= 0 \/ r.start # lk_start \/ r.end # lk_end

\* a step of md_handle_eio: it has made a work item or set its result; a
\* step of md_do_recover for the path p: the done call of an item tagged p
EioCalled == next_work' # next_work \/ eio_ret' # eio_ret
Recovered(p) ==
  \E w \in Works : ndone'[w] # ndone[w] /\ work[w].done = "md_do_recover"
                   /\ work[w].path = p
Online == OnlinePaths(md_array)

\* C8: md_handle_eio returns EIO and queues nothing when multi-disk is
\* disabled or no disk is online; in every other case it appends one item
\* (no run callback, done = md_do_recover, tagged with a path) to the
\* pending list of the md queue and returns NETWORK_ERROR.
C8_HandleEioCodes ==
  [][EioCalled =>
       IF ~enable_md \/ md_nr_disks = 0
       THEN /\ eio_ret' = SD_RES_EIO
            /\ UNCHANGED << next_work, work, pending_list, nr_pending, nsignal >>
       ELSE /\ eio_ret' = SD_RES_NETWORK_ERROR
            /\ next_work' = next_work + 1
            /\ pending_list' = Append(pending_list, next_work)
            /\ nr_pending' = nr_pending + 1
            /\ \E p \in Paths :
                 work' = [work EXCEPT ![next_work] =
                            [fn |-> FALSE, done |-> "md_do_recover", path |-> p]]]_vars

C8_Witness ==
  /\ eio_ret = SD_RES_EIO
  /\ enable_md
  /\ md_nr_disks = 0
  /\ next_work > 1

\* C9, as stated: with one disk online md_handle_eio returns EIO, and
\* neither md_handle_eio nor md_do_recover takes the disk count from 1 to 0.
C9_LastDiskKept ==
  [][/\ (EioCalled /\ enable_md /\ md_nr_disks = 1) => eio_ret' = SD_RES_EIO
     /\ (md_nr_disks = 1 /\ nr_plugs' = nr_plugs) => md_nr_disks' >= 1]_vars

\* C9, amended: with one disk online md_handle_eio returns NETWORK_ERROR and
\* leaves the disks alone; md_do_recover then takes the count from 1 to 0
\* but leaves the path in slot 0 and the ring as they were, so every lookup
\* answers as before, and kicks no recovery; md_handle_eio returns EIO only
\* when the count is 0 or multi-disk is disabled.
C9_LastDiskPhantom ==
  [][/\ (EioCalled /\ enable_md /\ md_nr_disks = 1) =>
          /\ eio_ret' = SD_RES_NETWORK_ERROR
          /\ UNCHANGED << md_disks, md_nr_disks, md_vds, md_nr_vds >>
     /\ (EioCalled /\ eio_ret' = SD_RES_EIO) => (~enable_md \/ md_nr_disks = 0)
     /\ (md_nr_disks = 1 /\ md_nr_disks' = 0 /\ nr_plugs' = nr_plugs) =>
          /\ Recovered(md_disks[0].path)
          /\ md_disks'[0].path = md_disks[0].path
          /\ UNCHANGED << md_vds, md_nr_vds, enable_md >>
          /\ \A oid \in Oids : get_object_path(oid)' = get_object_path(oid)
          /\ ~kicked']_vars

C9_Witness ==
  /\ md_nr_disks = 0
  /\ enable_md
  /\ nr_plugs = 0
  /\ eio_ret = SD_RES_NETWORK_ERROR
  /\ \E w \in Works : ndone[w] = 1
  /\ \E oid \in Oids : get_object_path(oid) = md_disks[0].path

\* C10, as stated: when the item of md_handle_eio(p) is dispatched with two
\* or more disks online, p among them, p leaves the disk array, no lookup
\* returns p any more and every oid that was routed to p is routed to a
\* disk that is online.
C10_EioActiveDisk ==
  [][\A p \in Paths : (Recovered(p) /\ p \in Online /\ md_nr_disks >= 2) =>
       /\ p \notin Online'
       /\ \A oid \in Oids :
            /\ get_object_path(oid)' # p
            /\ get_object_path(oid) = p => get_object_path(oid)' \in Online']_vars

\* C10, amended: md_handle_eio with two or more disks online returns
\* NETWORK_ERROR; when its item is dispatched p leaves the disk array and
\* md_get_info; whenever a disk is online the ring names online disks only,
\* so a lookup that returns returns an online path, never p.  With no disk
\* left online the ring stays as it was and may still name p.
C10_EioActiveDiskOnline ==
  /\ [][(EioCalled /\ enable_md /\ md_nr_disks >= 2) => eio_ret' = SD_RES_NETWORK_ERROR]_vars
  /\ [][\A p \in Paths : Recovered(p) =>
          /\ p \notin Online'
          /\ \A i \in DOMAIN md_get_info' : md_get_info'[i] # p
          /\ md_nr_disks' > 0 =>
               \A oid \in Oids : get_object_path(oid)' \in (Online' \cup {NoReturn}) \ {p}]_vars
  /\ [](md_nr_disks > 0 =>
          /\ enable_md
          /\ \A i \in DOMAIN md_vds : md_vds[i].idx < md_nr_disks
          /\ \A oid \in Oids : get_object_path(oid) \in Online \cup {NoReturn})

C10_Witness ==
  /\ md_nr_disks = 1
  /\ nr_plugs = 0
  /\ kicked
  /\ eio_ret = SD_RES_NETWORK_ERROR
  /\ \E w \in Works : ndone[w] = 1
  /\ \A oid \in Oids : get_object_path(oid) = md_disks[0].path

\* the ring lengths and the rings the disk array d stands for
VdiskSum(d) == Sum([i \in 0..(d.nr - 1) |-> d.disks[i].nr_vdisks], 0..(d.nr - 1))

\* C11, as stated: between any two md operations every ring entry names a
\* disk below the disk count and the ring is as long as the nr_vdisks of
\* the disks counted, also when the last disk has been removed.
C11_RingConsistent ==
  /\ \A i \in DOMAIN md_vds : md_vds[i].idx < md_nr_disks
  /\ md_nr_vds = VdiskSum(md_array)

\* C11, amended: while a disk is online the ring is one that
\* disks_to_vdisks builds from the disk array as it stands; once the count
\* is 0 the ring is the one left by the last build.
C11_RingConsistentOnline ==
  /\ [](md_nr_disks > 0 =>
          /\ md_vds \in disks_to_vdisks(md_disks, md_nr_disks)
          /\ md_nr_vds = Cardinality(DOMAIN md_vds)
          /\ md_nr_vds = VdiskSum(md_array)
          /\ \A i \in DOMAIN md_vds : md_vds[i].idx < md_nr_disks)
  /\ [][md_nr_disks' = 0 => UNCHANGED << md_vds, md_nr_vds >>]_vars

C11_Witness ==
  /\ plug_ret = SD_RES_SUCCESS
  /\ md_nr_disks = MaxDisks
  /\ kicked
  /\ \E w \in Works : ndone[w] = 1

\* a step of md_plug_disks or md_unplug_disks, and the paths it was given
PlugCalled == nr_plugs' # nr_plugs
PlugPaths(a) == { a.disks[i] : i \in 1..Len(a.disks) }
MdUnchanged == UNCHANGED << enable_md, md_disks, md_nr_disks, md_vds, md_nr_vds, disk_space >>

\* C12, as stated: a plug or unplug that leaves the number of disks as it
\* was returns SUCCESS, leaves the ring alone and kicks no recovery.
C12_NoopPlugSuccess ==
  [][(PlugCalled /\ md_nr_disks' = md_nr_disks /\ UNCHANGED md_disks) =>
       /\ plug_ret' = SD_RES_SUCCESS
       /\ UNCHANGED << md_vds, md_nr_vds >>
       /\ ~kicked']_vars

\* C12, amended: a plug of paths that are all online already, and an
\* unplug of paths none of which is online, returns UNKNOWN, leaves the
\* disk array, the ring and the disk space as they were and kicks no
\* recovery; and whenever UNKNOWN is returned nothing has changed.
C12_NoopPlugUnknown ==
  [][PlugCalled =>
       /\ ((plug_arg'.plug /\ PlugPaths(plug_arg') \subseteq Online)
            \/ (~plug_arg'.plug /\ PlugPaths(plug_arg') \cap Online = {}))
          => plug_ret' = SD_RES_UNKNOWN
       /\ plug_ret' = SD_RES_UNKNOWN => (MdUnchanged /\ ~kicked')]_vars

C12_Witness ==
  /\ plug_ret = SD_RES_UNKNOWN
  /\ plug_arg.plug
  /\ md_nr_disks >= 1
  /\ PlugPaths(plug_arg) \subseteq Online

\* C13, as stated: a plug or unplug that returns SUCCESS leaves another
\* number of disks than it found.
C13_SuccessCountChanged ==
  [][(PlugCalled /\ plug_ret' = SD_RES_SUCCESS) => md_nr_disks' # md_nr_disks]_vars

\* C13, amended: SUCCESS is returned only when the loop over the paths has
\* added or removed a disk: a plug names a path that was not online, an
\* unplug names a path that was, and every other call returns UNKNOWN.  An
\* unplug that returns SUCCESS leaves fewer disks; a plug may leave as many
\* as it found (md_init_space drops the disks whose init_path_space fails);
\* recovery is kicked if and only if a disk is left.
C13_SuccessLoopChanged ==
  [][PlugCalled =>
       /\ plug_ret' \in {SD_RES_SUCCESS, SD_RES_UNKNOWN}
       /\ plug_ret' = SD_RES_SUCCESS =>
            /\ IF plug_arg'.plug
               THEN PlugPaths(plug_arg') \ Online # {}
               ELSE PlugPaths(plug_arg') \cap Online # {} /\ md_nr_disks' < md_nr_disks
            /\ kicked' = (md_nr_disks' > 0)]_vars

C13_Witness ==
  /\ plug_ret = SD_RES_SUCCESS
  /\ plug_arg.plug
  /\ nr_plugs = 1
  /\ md_nr_disks = 1
  /\ PlugPaths(plug_arg) \cap Online = {}
  /\ md_disks[1].path \in PlugPaths(plug_arg)

\* the path get_object_path returns for oid on the disks and the ring of r
path_on(r, oid) ==
  LET vd == oid_to_vdisk_from(r.vds, Cardinality(DOMAIN r.vds), oid) IN
  IF vd < 0 THEN NoReturn ELSE r.disks[r.vds[vd].idx].path

\* the states md.c can be started in with the disks of l, none of them broken
StartedOn(l) == md_init_space(plug_loop(NoDisks, l, TRUE, {}), {})

\* C14: whatever order the disks that are online were added in, every oid
\* is placed on the same path.
C14_PlacementOrderFree ==
  md_nr_disks > 0 =>
    \A l \in PathLists : PlugPaths([disks |-> l]) = Online =>
      \A r \in StartedOn(l) : \A oid \in Oids :
        path_on(r, oid) = get_object_path(oid)

\* the call of md_exist by thread t returns in this step
ExistReturns(t) == sc_pc[t] # "done" /\ sc_pc'[t] = "done"

\* the directory get_object_path names for the object
Canonical == get_object_path(sc_oid)

C19_ConcurrentScan ==
  [][\A t \in ScanThreads :
       (ExistReturns(t) /\ sc_pre'[t] \cap Online # {}) =>
         /\ sc_ret'[t] = "true"
         /\ Canonical \in files']_vars

\* C16: an ORDERED queue always has at least one thread, and a queue of any
\* kind has no thread only while its pending list is empty: no worker that
\* leaves by shrinking takes the thread count to 0 with work pending.
C16_ThreadFloor ==
  /\ tc = WQ_ORDERED => nr_threads >= 1
  /\ nr_threads = 0 => pending_list = << >>

\* a DYNAMIC queue that grew, shrank again after the protection period and
\* is left with one thread, which waits for work
C16_Witness ==
  /\ tc = WQ_DYNAMIC /\ last_grow >= 0 /\ create_ret = 0
  /\ now >= last_grow + WQ_PROTECTION_PERIOD
  /\ nr_threads = 1 /\ wwait = 1 /\ nr_running = 0

\* C17: when pthread_create fails for the first worker, init_work_queue
\* returns NULL, the queue is never on worker_info_list, startup_lock is not
\* left held, and the main thread unlocks startup_lock only while it holds
\* it: as many unlocks as locks.
C17_CreateFailure ==
  /\ [](\A q \in InitQueues :
          iq_ret[q] = "NULL" =>
            /\ iq_nr_threads[q] = 0
            /\ \A i \in 1..Len(worker_info_list) : worker_info_list[i] # q
            /\ startup_lock[q] \notin {"main", "worker"}
            /\ iq_unlocks[q] = iq_locks[q])
  /\ [][\A q \in InitQueues :
          iq_unlocks'[q] # iq_unlocks[q] => startup_lock[q] = "main"]_vars

\* C18: an md_do_recover for a path that is online removes that path, and
\* kicks recovery exactly when a disk is left; an md_do_recover for a path
\* that is not online (a second report of a path already removed) leaves
\* the disk array, the ring and the disk space as they are and kicks
\* nothing.  While no disk has been plugged, the set of online paths only
\* shrinks, so however many reports a path gets it is removed once.
C18_DuplicateEio ==
  /\ [][\A p \in Paths :
          Recovered(p) =>
            IF p \in Online
            THEN p \notin Online' /\ (kicked' <=> md_nr_disks' > 0)
            ELSE MdUnchanged /\ ~kicked']_vars
  /\ [][nr_plugs' = 0 => Online' \subseteq Online]_vars

\* two reports were queued; the first md_do_recover removed a disk and
\* kicked recovery, and the second item, for a path no longer online, is at
\* the head of the list of finished items
C18_Witness ==
  /\ nr_plugs = 0 /\ next_work = 3
  /\ ndone[1] = 1 /\ kicked /\ md_nr_disks = 1
  /\ list # << >>
  /\ work[Head(list)].done = "md_do_recover"
  /\ work[Head(list)].path \notin Online

\* a worker evaluates wq_need_shrink in this step, at the clock reading now'
ShrinkTest == wloop' < wloop
LoadHalf == nr_pending + nr_running <= nr_threads \div 2

\* C20, as stated: when the shrink test fails, because the load half fails
\* or because the time half fails, tm_end_of_protection becomes
\* now + WQ_PROTECTION_PERIOD and the worker stays; when it holds, the
\* worker takes one off nr_threads and nr_running and leaves.
C20_ShrinkEval ==
  [][ShrinkTest =>
       IF LoadHalf /\ tm_end_of_protection <= now'
       THEN /\ nr_threads' = nr_threads - 1
            /\ nr_running' = nr_running - 1
       ELSE /\ nr_threads' = nr_threads
            /\ tm_end_of_protection' = now' + WQ_PROTECTION_PERIOD]_vars

\* C20, as the code has it: tm_end_of_protection becomes
\* now + WQ_PROTECTION_PERIOD only when the load half fails; when the load
\* half holds and the time half fails it keeps its value.  In both cases
\* the worker stays; when both halves hold the worker takes one off
\* nr_threads and nr_running and leaves, and tm_end_of_protection keeps its
\* value.
C20_ShrinkEvalLoadOnly ==
  [][ShrinkTest =>
       IF LoadHalf /\ tm_end_of_protection <= now'
       THEN /\ nr_threads' = nr_threads - 1
            /\ nr_running' = nr_running - 1
            /\ UNCHANGED tm_end_of_protection
       ELSE /\ nr_threads' = nr_threads
            /\ tm_end_of_protection' =
                 IF LoadHalf THEN tm_end_of_protection
                 ELSE now' + WQ_PROTECTION_PERIOD]_vars

\* a queue that grew to two threads; a later shrink test, inside the
\* protection period, found the load half true and left the end of
\* protection where the grow had put it
C20_Witness ==
  /\ nr_threads = 2 /\ last_grow >= 0 /\ create_ret = 0
  /\ now > last_grow
  /\ now < tm_end_of_protection
  /\ tm_end_of_protection = last_grow + WQ_PROTECTION_PERIOD

\* the workers that have started and are not in pthread_cond_wait: those at
\* the top of the loop, those that hold an item, those about to write the
\* eventfd
Busy == wloop + wnotify + Cardinality({ w \in Works : hold[w] # "none" })

\* C23: between critical sections of pending_lock, nr_pending is the length
\* of the pending list, nr_running is at least 0 and at most nr_threads,
\* and nr_running is the number of started workers that are not blocked in
\* the condition wait.
C23_Counters ==
  /\ nr_pending = Len(pending_list)
  /\ nr_running >= 0
  /\ nr_running <= nr_threads
  /\ nr_running = Busy
  /\ nr_threads = wstart + Busy + wwait + wwoken

\* two workers: one waits on the condition and is not counted, the other
\* runs an item and is; one more item is pending
C23_Witness ==
  /\ nr_threads = 2 /\ nr_running = 1 /\ wwait + wwoken = 1
  /\ nr_pending = 1 /\ \E w \in Works : hold[w] = "run"

\* the items whose done call is due, oldest first: what is left of the
\* local list of bs_thread_request_done, then the finished list
Undelivered == list \o finished_list

\* C22: done is called for one item at a time, always the oldest of the
\* items that workers have appended to the finished list and that have not
\* had their call yet; a step without a done call leaves those items in
\* their order or appends one at the end, whatever the interleaving of the
\* appends with the swap of the lists.  On an ORDERED queue every item
\* submitted earlier has had its call already.
C22_CompletionOrder ==
  [][/\ \A w \in Works :
          ndone'[w] # ndone[w] =>
            /\ \A v \in Works \ {w} : ndone'[v] = ndone[v]
            /\ Undelivered # << >>
            /\ w = Head(Undelivered)
            /\ Undelivered' = Tail(Undelivered)
            /\ tc = WQ_ORDERED => \A v \in 1..(w - 1) : ndone[v] = 1
     /\ (\A w \in Works : ndone'[w] = ndone[w]) =>
          \/ Undelivered' = Undelivered
          \/ \E w \in Works : /\ ~InList(Undelivered, w)
                              /\ Undelivered' = Append(Undelivered, w)]_vars

\* the second item was finished before the first and has had its done
\* call; the first was appended after the swap that took the second and
\* waits in the finished list for the next wakeup
C22_Witness ==
  /\ ndone[2] = 1 /\ ndone[1] = 0
  /\ list = << >> /\ finished_list = << 1 >>
  /\ efd > 0

\* the places of a worker past the pthread_mutex_lock of line 183
PastBarrier == {"barrier", "start", "top", "wait", "woken", "run", "notify"}
\* the places of a thread inside the locked part of create_worker_threads
Creating == {"create", "register", "count", "unlock"}

\* C21: a new worker gets past its pthread_mutex_lock(&wi->startup_lock)
\* only when no thread is inside create_worker_threads with the lock; from
\* then on it is registered with the tracer and counted in nr_threads.
\* nr_running is incremented, and an item taken, only by workers past that
\* point.  This holds for the worker made by init_work_queue and for the
\* workers made by a grow in queue_work.
C21_StartupBarrier ==
  /\ [](\A w \in Wkrs :
          th_pc[w] \in PastBarrier => w \in th_registered /\ w \in th_counted)
  /\ [][\A w \in Wkrs :
          (th_pc[w] = "created" /\ th_pc'[w] # "created") =>
             /\ th_held["startup_lock"] = Free
             /\ \A c \in {Main} \cup Subs : th_pc[c] \notin Creating]_vars
  /\ [][(th_nr_running' > th_nr_running \/ th_nr_pending' < th_nr_pending) =>
          \E w \in Wkrs : /\ th_pc[w] \in PastBarrier \ {"barrier"}
                          /\ th_pc'[w] # th_pc[w]
                          /\ w \in th_registered /\ w \in th_counted]_vars

\* the worker made by init_work_queue and the worker made by a grow both
\* run an item
C21_Witness ==
  /\ th_pc[<< "wkr", 1 >>] = "run"
  /\ th_pc[<< "wkr", 2 >>] = "run"
  /\ th_nr_threads = 2 /\ th_nr_running = 2

\* thread t has called a lock function and has to wait
Blocked(t) == th_want[t] # "none" /\ ~Avail(th_want[t])

\* the locks thread t holds from one step to the next
Held(t) ==
  { m \in Mutexes : th_held[m] = t }
    \cup (IF th_rw.w = t THEN {"md_wr"} ELSE {})
    \cup (IF t \in th_rw.r THEN {"md_rd"} ELSE {})

\* an order of the locks: md_lock, pending_lock, startup_lock, finished_lock
Rank(lock) ==
  CASE lock \in {"md_rd", "md_wr"} -> 0
    [] lock = "pending_lock" -> 1
    [] lock = "startup_lock" -> 2
    [] lock = "finished_lock" -> 3

\* the threads that exist and have not ended
Live == { t \in Threads : th_pc[t] \notin {"none", "exited", "failed"} }

\* C24: a thread calls a lock function only for a lock that comes later in
\* one fixed order than every lock it holds (pending_lock before
\* startup_lock in queue_work), so no set of threads waits in a cycle:
\* there is no set of blocked threads each of which waits for a lock held
\* inside the set.  While an item is pending or finished and its done call
\* has not been made, some live thread is not blocked on a lock.
C24_NoDeadlock ==
  /\ \A t \in Threads :
       th_want[t] # "none" => \A h \in Held(t) : Rank(h) < Rank(th_want[t])
  /\ \A D \in SUBSET Threads :
       D # {} => \E t \in D : ~Blocked(t) \/ Holders(th_want[t]) \cap D = {}
  /\ (th_nr_pending > 0 \/ th_finished > 0 \/ th_local > 0) =>
       \E t \in Live : ~Blocked(t)

\* a reporting thread is in create_worker_threads with pending_lock and
\* startup_lock; the new worker waits for startup_lock and the old one for
\* pending_lock, while the main thread is in md_do_recover with md_lock
C24_Witness ==
  /\ \E s \in Subs : th_held["pending_lock"] = s /\ th_held["startup_lock"] = s
  /\ th_want[<< "wkr", 2 >>] = "startup_lock" /\ Blocked(<< "wkr", 2 >>)
  /\ th_want[<< "wkr", 1 >>] = "pending_lock" /\ Blocked(<< "wkr", 1 >>)
  /\ th_rw.w = Main

=============================================================================
